---- MODULE Spec2Model ----
(***************************************************************************)
(* A model of the newsroom-bot webhook dispatcher:                         *)
(*   - discord-bot/src/lib.rs      InteractionHandler::handle, the race    *)
(*     between the spawned handler task and the 500 ms timeout, and the    *)
(*     detached follow-up task;                                            *)
(*   - discord-bot/src/command.rs  CommandRouter, its lookup and build;    *)
(*   - via-axum/src/routes/discord/interactions.rs  the Ed25519 extractor, *)
(*     the JSON extractor and handle_post.                                 *)
(* The program runs on tokio's multi-threaded runtime (#[tokio::main]), so *)
(* every spawned task may run in parallel with the task that spawned it:   *)
(* each action below is one stretch of code between two suspension points  *)
(* or between two points another task can observe.                         *)
(***************************************************************************)
EXTENDS Integers, Sequences, FiniteSets, TLC

(***************************************************************************)
(* Bounds of the model.                                                    *)
(***************************************************************************)
NumInteractions == 2
MaxTimestampLen == 1
MaxBodyLen == 2
MaxEntries == 2
MaxStringLen == 2

Interactions == 1..NumInteractions

(***************************************************************************)
(* Values.                                                                 *)
(***************************************************************************)
None == [tag |-> "None"]
Ok(v) == [tag |-> "Ok", value |-> v]
Err(e) == [tag |-> "Err", error |-> e]
Some(v) == [tag |-> "Some", value |-> v]

\* twilight_model InteractionType, as matched in InteractionHandler::handle
InteractionTypes ==
    {"Ping", "ApplicationCommand", "MessageComponent",
     "ApplicationCommandAutocomplete", "ModalSubmit", "Unknown"}

\* command names are strings of characters
NewRelease == <<"n", "e", "w", "-", "r", "e", "l", "e", "a", "s", "e">>
DoesNotExist ==
    <<"d", "o", "e", "s", "-", "n", "o", "t", "-", "e", "x", "i", "s", "t">>

\* names a command interaction can carry: the one of the catalog and others
CommandNames == {NewRelease, DoesNotExist}

\* Interaction.data: absent, data of another variant, or command data
InteractionDatas ==
    {None, [tag |-> "MessageComponent"]}
        \cup {[tag |-> "ApplicationCommand", name |-> n] : n \in CommandNames}

\* the interactions handle is given: a command with any data, the other
\* kinds as they come
InteractionValues ==
    {ix \in [kind : InteractionTypes, data : InteractionDatas] :
        ix.kind # "ApplicationCommand" => ix.data = None}

NoInteraction == [kind |-> "none", data |-> None]

InteractionResponse(kind, data) == [kind |-> kind, data |-> data]

InteractionResponseData(content, embeds, flags) ==
    Some([content |-> content, embeds |-> embeds, flags |-> flags])

\* what a handler (Fn(State, Interaction) -> InteractionResponse) can return:
\* the two responses of new_release::handle, and a response without data,
\* which the type allows and the follow-up task's expect("TODO") anticipates
HandlerResponses ==
    {InteractionResponse("ChannelMessageWithSource",
         InteractionResponseData(Some("Copy the Content"), Some("release"), "EPHEMERAL")),
     InteractionResponse("ChannelMessageWithSource",
         InteractionResponseData(None, Some("Error"), "EPHEMERAL")),
     InteractionResponse("ChannelMessageWithSource", None)}

(***************************************************************************)
(* The command router (command.rs).                                        *)
(***************************************************************************)
\* command::all(): the catalog, one (command, handler) pair
all == <<[name |-> NewRelease, handler |-> "new_release::handle"]>>

\* CommandRouter::add_already_arced: map.insert(name, handler)
add_already_arced(router, name, handler) ==
    [n \in DOMAIN router \cup {name} |->
        IF n = name THEN handler ELSE router[n]]

RECURSIVE from_iter_loop(_, _)
from_iter_loop(router, entries) ==
    IF entries = <<>> THEN router
    ELSE from_iter_loop(
            add_already_arced(router, Head(entries).name, Head(entries).handler),
            Tail(entries))

\* FromIterator for CommandRouter: CommandRouter::default(), then one insert
\* per entry
from_iter(entries) == from_iter_loop(<<>>, entries)

\* s is a prefix of t
IsPrefix(s, t) == Len(s) <= Len(t) /\ SubSeq(t, 1, Len(s)) = s

\* a lookup that walks the tree as far as the shorter of the two keys goes
RouterGet_prefix(router, name) ==
    LET matching == {n \in DOMAIN router : IsPrefix(n, name) \/ IsPrefix(name, n)}
    IN IF matching # {} THEN Some(router[CHOOSE n \in matching : TRUE]) ELSE None

\* self.map.get(command_name)
RouterGet(router, name) ==
    IF name \in DOMAIN router THEN Some(router[name]) ELSE None

\* a handle that looks at the data only when it is command data, and hands
\* every other interaction to a handler of the router
Route_unchecked(router, ix) ==
    IF ix.data # None /\ ix.data.tag = "ApplicationCommand"
        THEN LET found == RouterGet(router, ix.data.name) IN
             IF found = None
                THEN Err([tag |-> "CommandDoesntExist", name |-> ix.data.name])
                ELSE Ok(found.value)
    ELSE IF DOMAIN router = {} THEN Err([tag |-> "MisssingInteractionData"])
    ELSE Ok(router[CHOOSE name \in DOMAIN router : TRUE])

\* a handle that reports data of another variant as missing data
Route_undistinguished(router, ix) ==
    IF ix.data = None \/ ix.data.tag # "ApplicationCommand"
        THEN Err([tag |-> "MisssingInteractionData"])
    ELSE LET found == RouterGet(router, ix.data.name) IN
         IF found = None
            THEN Err([tag |-> "CommandDoesntExist", name |-> ix.data.name])
            ELSE Ok(found.value)

\* CommandRouter::handle up to the handler call: Err(e), or Ok(handler) when
\* the handler is about to be invoked
Route(router, ix) ==
    IF ix.data = None THEN Err([tag |-> "MisssingInteractionData"])
    ELSE IF ix.data.tag # "ApplicationCommand"
        THEN Err([tag |-> "MissingExpectedCommandData"])
    ELSE LET found == RouterGet(router, ix.data.name) IN
         IF found = None
            THEN Err([tag |-> "CommandDoesntExist", name |-> ix.data.name])
            ELSE Ok(found.value)

(***************************************************************************)
(* State.                                                                  *)
(***************************************************************************)
VARIABLES
    command_router,  \* InteractionHandler.command_router
    all_commands,    \* the entries the router was built from, once it is
    router_view,     \* [i] the clone of the router handle took for its task
    interaction,     \* [i] the Interaction handle was called with
    callerPc,        \* [i] where the future of InteractionHandler::handle is
    callerResult,    \* [i] what handle returned
    branch,          \* [i] the arm of the match on timeout(..) that was taken
    responseTask,    \* [i] the spawned response_task
    chan,            \* [i] the oneshot channel: value in flight, owner of rx
    timer,           \* [i] the 500 ms Sleep inside timeout(..)
    followUp,        \* [i] the detached follow-up task
    updateCalls,     \* [i] update_response calls made, in order
    receivedBy,      \* [i] who received from rx, in order
    lookedUp,        \* [i] number of map.get lookups
    invoked,         \* [i] the handlers invoked, in order
    ret,             \* [i] response_task's `ret`, once computed
    httpPc,          \* where the request of the HTTP boundary is
    request,         \* the request: its two headers and its body
    verification,    \* what verify returned for it
    deserialized,    \* what serde_json::from_slice returned for it
    httpResponse,    \* the response written for it
    strings,         \* the two strings wrapped as CaseInsensitiveString
    ordering,        \* what cmp returned for them
    equal,           \* what eq returned for them
    btreemap,        \* the BTreeMap built with them as keys
    initPc,          \* where init is
    catalog,         \* what command::all() returns
    discord_commands, \* the Vec init passes to set_global_commands
    platform,        \* the global commands the platform has for the application
    replies,         \* how the platform answered the requests of init, in order
    initResult,      \* what init returned
    artists_joined,  \* the String parse_list_of_artists is given
    artists,         \* what parse_list_of_artists returned for it
    music_album,     \* the first schema_org::MusicAlbum of a page
    ld_json_release  \* what get_release_from_ld_json returned for it

dispatchVars == <<command_router, all_commands, router_view, interaction, callerPc,
                  callerResult, branch,
                  responseTask, chan, timer, followUp, updateCalls, receivedBy,
                  lookedUp, invoked, ret>>

httpVars == <<httpPc, request, verification, deserialized, httpResponse>>

caseVars == <<strings, ordering, equal, btreemap>>

initVars == <<initPc, catalog, discord_commands, platform, replies, initResult>>

\* what the dispatcher and the HTTP boundary never touch
releaseVars == <<artists_joined, artists, music_album, ld_json_release>>

nonCaseVars == <<initVars, releaseVars>>
otherVars == <<caseVars, nonCaseVars>>

vars == <<dispatchVars, httpVars, otherVars>>

\* the names of the commands of a catalog, as init collects them for
\* set_global_commands (lib.rs:78-82)
CommandsOf(entries) == [k \in DOMAIN entries |-> entries[k].name]

\* no page has been looked at
NoRelease ==
    /\ artists_joined = <<>>
    /\ artists = None
    /\ music_album = None
    /\ ld_json_release = None

\* Ok((interaction_handler, state)) of init
InitOk(router) ==
    Ok([interaction_handler |-> [command_router |-> router], state |-> "State"])

\* init has returned Ok for the catalog: the state the router is used in
InitReturned(entries) ==
    /\ initPc = "returned"
    /\ catalog = entries
    /\ discord_commands = Some(CommandsOf(entries))
    /\ platform = Some(CommandsOf(entries))
    /\ replies = <<"Ok", "Ok", "Ok", "Ok">>
    /\ initResult = InitOk(from_iter(entries))

\* init has not been called
InitNotCalled(entries) ==
    /\ initPc = "start"
    /\ catalog = entries
    /\ discord_commands = None
    /\ platform = None
    /\ replies = <<>>
    /\ initResult = None

Init ==
    /\ command_router = from_iter(all)
    /\ all_commands = Some(all)
    /\ router_view = [i \in Interactions |-> None]
    /\ interaction = [i \in Interactions |-> NoInteraction]
    /\ callerPc = [i \in Interactions |-> "idle"]
    /\ callerResult = [i \in Interactions |-> None]
    /\ branch = [i \in Interactions |-> "none"]
    /\ responseTask = [i \in Interactions |-> "none"]
    /\ chan = [i \in Interactions |-> [value |-> None, rx |-> "none"]]
    /\ timer = [i \in Interactions |-> "none"]
    /\ followUp = [i \in Interactions |-> "none"]
    /\ updateCalls = [i \in Interactions |-> <<>>]
    /\ receivedBy = [i \in Interactions |-> <<>>]
    /\ lookedUp = [i \in Interactions |-> 0]
    /\ invoked = [i \in Interactions |-> <<>>]
    /\ ret = [i \in Interactions |-> None]
    /\ httpPc = "listening"
    /\ request = None
    /\ verification = None
    /\ deserialized = None
    /\ httpResponse = None
    /\ strings = <<<<>>, <<>>>>
    /\ ordering = None
    /\ equal = None
    /\ btreemap = None
    /\ InitReturned(all)
    /\ NoRelease


(***************************************************************************)
(* InteractionHandler::handle (lib.rs:125-194).                            *)
(***************************************************************************)
\* the Pong of the Ping arm
Pong == InteractionResponse("Pong", None)

\* a deferred acknowledgement without the ephemeral flag
DeferredResponse_public ==
    InteractionResponse("DeferredChannelMessageWithSource",
        InteractionResponseData(None, None, "none"))

\* the deferred acknowledgement built in the Err(_) arm
DeferredResponse ==
    InteractionResponse("DeferredChannelMessageWithSource",
        InteractionResponseData(None, None, "EPHEMERAL"))

\* a handle that answers an error of the task with the deferred response
ImmediateResult_swallowed(received) ==
    IF received.tag = "Ok" THEN Ok(received.value) ELSE Ok(DeferredResponse)

\* rx.await.unwrap().context(CommandHandleSnafu): the handler task's result
\* as handle returns it on the immediate branch
ImmediateResult(received) ==
    IF received.tag = "Ok" THEN Ok(received.value)
    ELSE Err([tag |-> "CommandHandleError", source |-> received.error])

\* a timeout that polls the Sleep first and the JoinHandle second
TimeoutPoll_sleep_first(task, sleep) ==
    IF sleep = "expired" THEN "Elapsed"
    ELSE IF task \in {"finished", "panicked"} THEN "Ok"
    ELSE "Pending"

\* tokio::time::timeout polls the JoinHandle first and the Sleep second
TimeoutPoll(task, sleep) ==
    IF task \in {"finished", "panicked"} THEN "Ok"
    ELSE IF sleep = "expired" THEN "Elapsed"
    ELSE "Pending"

\* a JoinHandle that aborts its task when dropped
DropJoinHandle_aborts(task) ==
    IF task \in {"spawned", "invoked"} THEN "aborted" ELSE task

\* the JoinHandle is dropped when timeout(..) resolves to Err(_): tokio
\* detaches the task, which keeps running
DropJoinHandle(task) == task

\* a handle that spawns response_task before it matches on the kind
InteractionHandler_handle_spawn_first(i, ix) ==
    /\ callerPc[i] = "idle"
    /\ interaction' = [interaction EXCEPT ![i] = ix]
    /\ responseTask' = [responseTask EXCEPT ![i] = "spawned"]
    /\ IF ix.kind = "Ping" THEN
            /\ callerPc' = [callerPc EXCEPT ![i] = "returned"]
            /\ callerResult' = [callerResult EXCEPT ![i] = Ok(Pong)]
            /\ UNCHANGED <<chan, timer>>
       ELSE IF ix.kind = "ApplicationCommand" THEN
            /\ callerPc' = [callerPc EXCEPT ![i] = "racing"]
            /\ chan' = [chan EXCEPT ![i] = [value |-> None, rx |-> "caller"]]
            /\ timer' = [timer EXCEPT ![i] = "armed"]
            /\ UNCHANGED callerResult
       ELSE /\ callerPc' = [callerPc EXCEPT ![i] = "panicked"]
            /\ UNCHANGED <<callerResult, chan, timer>>
    /\ router_view' = [router_view EXCEPT ![i] = Some(command_router)]
    /\ UNCHANGED <<command_router, all_commands,
                   ret, branch, followUp, updateCalls, receivedBy,
                   lookedUp, invoked>>

\* the entry of handle: the match on interaction.kind, and for a command the
\* channel, the spawn of response_task and the first poll of timeout(..)
InteractionHandler_handle(i, ix) ==
    /\ callerPc[i] = "idle"
    /\ interaction' = [interaction EXCEPT ![i] = ix]
    /\ IF ix.kind = "Ping" THEN
            /\ callerPc' = [callerPc EXCEPT ![i] = "returned"]
            /\ callerResult' = [callerResult EXCEPT ![i] = Ok(Pong)]
            /\ UNCHANGED <<responseTask, chan, timer, router_view>>
       ELSE IF ix.kind = "ApplicationCommand" THEN
            /\ callerPc' = [callerPc EXCEPT ![i] = "racing"]
            /\ chan' = [chan EXCEPT ![i] = [value |-> None, rx |-> "caller"]]
            /\ router_view' = [router_view EXCEPT ![i] = Some(command_router)]
            /\ responseTask' = [responseTask EXCEPT ![i] = "spawned"]
            /\ timer' = [timer EXCEPT ![i] = "armed"]
            /\ UNCHANGED callerResult
       ELSE \* todo!()
            /\ callerPc' = [callerPc EXCEPT ![i] = "panicked"]
            /\ UNCHANGED <<callerResult, responseTask, chan, timer, router_view>>
    /\ UNCHANGED <<command_router, all_commands,
                   ret, branch, followUp, updateCalls, receivedBy,
                   lookedUp, invoked>>

\* a send into one channel that all dispatches share
SendAndFinish_shared(i, value) ==
    /\ ret' = [ret EXCEPT ![i] = Some(value)]
    /\ responseTask' = [responseTask EXCEPT ![i] = "finished"]
    /\ chan' = [chan EXCEPT ![1].value = Some(value)]

\* tx.send(ret).unwrap() and the end of response_task: the send fails, and
\* the unwrap panics, when the receiver has been dropped
SendAndFinish(i, value) ==
    /\ ret' = [ret EXCEPT ![i] = Some(value)]
    /\ IF chan[i].rx = "dropped"
       THEN /\ responseTask' = [responseTask EXCEPT ![i] = "panicked"]
            /\ UNCHANGED chan
       ELSE /\ responseTask' = [responseTask EXCEPT ![i] = "finished"]
            /\ chan' = [chan EXCEPT ![i].value = Some(value)]

\* a response_task that reaches the router through a shared reference
RouterView_shared(i) == command_router

\* the router response_task calls handle on: the clone moved into it
\* (lib.rs:140, 145)
RouterView(i) == router_view[i].value

\* a handle on the shared router that registers the names it does not find
CommandRouter_handle_registering(i) ==
    /\ responseTask[i] = "spawned"
    /\ LET routed == Route(command_router, interaction[i]) IN
        /\ lookedUp' = [lookedUp EXCEPT ![i] =
                IF interaction[i].data # None
                   /\ interaction[i].data.tag = "ApplicationCommand"
                THEN @ + 1 ELSE @]
        /\ IF routed.tag = "Ok"
           THEN /\ responseTask' = [responseTask EXCEPT ![i] = "invoked"]
                /\ invoked' = [invoked EXCEPT ![i] = Append(@, routed.value)]
                /\ UNCHANGED <<chan, ret, command_router>>
           ELSE /\ SendAndFinish(i, Err(routed.error))
                /\ command_router' =
                        IF routed.error.tag = "CommandDoesntExist"
                        THEN add_already_arced(command_router,
                                routed.error.name, "not_found::handle")
                        ELSE command_router
                /\ UNCHANGED invoked
    /\ UNCHANGED <<all_commands, router_view,
                   interaction, callerPc, callerResult, branch,
                   timer, followUp, updateCalls, receivedBy>>
    /\ UNCHANGED <<httpVars, otherVars>>

\* response_task, first stretch: CommandRouter::handle up to the call of the
\* handler (command.rs:66-83); an error is sent at once
CommandRouter_handle(i) ==
    /\ responseTask[i] = "spawned"
    /\ LET routed == Route(RouterView(i), interaction[i]) IN
        /\ lookedUp' = [lookedUp EXCEPT ![i] =
                IF interaction[i].data # None
                   /\ interaction[i].data.tag = "ApplicationCommand"
                THEN @ + 1 ELSE @]
        /\ IF routed.tag = "Ok"
           THEN /\ responseTask' = [responseTask EXCEPT ![i] = "invoked"]
                /\ invoked' = [invoked EXCEPT ![i] = Append(@, routed.value)]
                /\ UNCHANGED <<chan, ret>>
           ELSE /\ SendAndFinish(i, Err(routed.error))
                /\ UNCHANGED invoked
    /\ UNCHANGED <<command_router, all_commands, router_view,
                   interaction, callerPc, callerResult, branch,
                   timer, followUp, updateCalls, receivedBy>>
    /\ UNCHANGED <<httpVars, otherVars>>

\* response_task, second stretch: the handler's future resolves to a response
HandlerReturns(i) ==
    /\ responseTask[i] = "invoked"
    /\ \E response \in HandlerResponses : SendAndFinish(i, Ok(response))
    /\ UNCHANGED <<command_router, all_commands, router_view,
                   interaction, callerPc, callerResult, branch,
                   timer, followUp, updateCalls, receivedBy, lookedUp, invoked>>
    /\ UNCHANGED <<httpVars, otherVars>>

\* the handler panics (new_release.rs has panicking paths): the task ends
\* with a JoinError and tx is dropped unsent
HandlerPanics(i) ==
    /\ responseTask[i] = "invoked"
    /\ responseTask' = [responseTask EXCEPT ![i] = "panicked"]
    /\ UNCHANGED <<command_router, all_commands, router_view,
                   ret, interaction, callerPc, callerResult, branch,
                   chan, timer, followUp, updateCalls, receivedBy, lookedUp,
                   invoked>>
    /\ UNCHANGED <<httpVars, otherVars>>

\* 500 ms pass
TimerExpires(i) ==
    /\ callerPc[i] = "racing"
    /\ timer[i] = "armed"
    /\ timer' = [timer EXCEPT ![i] = "expired"]
    /\ UNCHANGED <<command_router, all_commands, router_view,
                   ret, interaction, callerPc, callerResult, branch,
                   responseTask, chan, followUp, updateCalls, receivedBy,
                   lookedUp, invoked>>
    /\ UNCHANGED <<httpVars, otherVars>>

\* an Ok(in_time) arm entered with the follow-up task already spawned
ImmediateArm_spawning(i) ==
    /\ branch' = [branch EXCEPT ![i] = "immediate"]
    /\ timer' = [timer EXCEPT ![i] = "dropped"]
    /\ followUp' = [followUp EXCEPT ![i] = "waiting"]
    /\ callerPc' = [callerPc EXCEPT ![i] = "returned"]
    /\ callerResult' = [callerResult EXCEPT ![i] = Ok(DeferredResponse)]
    /\ chan' = [chan EXCEPT ![i].rx = "followup"]
    /\ UNCHANGED <<responseTask, receivedBy>>

\* Ok(in_time) arm (lib.rs:150-153): in_time.unwrap(), then rx.await.unwrap()
ImmediateArm(i) ==
    /\ branch' = [branch EXCEPT ![i] = "immediate"]
    /\ timer' = [timer EXCEPT ![i] = "dropped"]
    /\ IF responseTask[i] = "panicked" \/ chan[i].value = None
       THEN \* in_time.unwrap() panics on the JoinError
            /\ callerPc' = [callerPc EXCEPT ![i] = "panicked"]
            /\ chan' = [chan EXCEPT ![i].rx = "dropped"]
            /\ UNCHANGED <<callerResult, receivedBy>>
       ELSE /\ callerPc' = [callerPc EXCEPT ![i] = "returned"]
            /\ callerResult' = [callerResult EXCEPT ![i] =
                    ImmediateResult(chan[i].value.value)]
            /\ chan' = [chan EXCEPT ![i] = [value |-> None, rx |-> "dropped"]]
            /\ receivedBy' = [receivedBy EXCEPT ![i] = Append(@, "caller")]
    /\ UNCHANGED <<responseTask, followUp>>

\* an Err(_) arm that starts the handler task over for the follow-up
DeferredArm_reinvoking(i) ==
    /\ branch' = [branch EXCEPT ![i] = "deferred"]
    /\ timer' = [timer EXCEPT ![i] = "dropped"]
    /\ responseTask' = [responseTask EXCEPT ![i] = "spawned"]
    /\ followUp' = [followUp EXCEPT ![i] = "waiting"]
    /\ chan' = [chan EXCEPT ![i].rx = "followup"]
    /\ callerPc' = [callerPc EXCEPT ![i] = "deferring"]
    /\ UNCHANGED <<callerResult, receivedBy>>

\* Err(_) arm, first part (lib.rs:154-175): the JoinHandle is dropped and the
\* follow-up task is spawned with rx moved into it
DeferredArm(i) ==
    /\ branch' = [branch EXCEPT ![i] = "deferred"]
    /\ timer' = [timer EXCEPT ![i] = "dropped"]
    /\ responseTask' = [responseTask EXCEPT ![i] = DropJoinHandle(@)]
    /\ followUp' = [followUp EXCEPT ![i] = "waiting"]
    /\ chan' = [chan EXCEPT ![i].rx = "followup"]
    /\ callerPc' = [callerPc EXCEPT ![i] = "deferring"]
    /\ UNCHANGED <<callerResult, receivedBy>>

\* a poll of timeout(Duration::from_millis(500), response_task) that resolves
PollTimeout(i) ==
    /\ callerPc[i] = "racing"
    /\ LET polled == TimeoutPoll(responseTask[i], timer[i]) IN
        /\ polled # "Pending"
        /\ IF polled = "Ok" THEN ImmediateArm(i) ELSE DeferredArm(i)
    /\ UNCHANGED <<command_router, all_commands, router_view,
                   ret, interaction, updateCalls, lookedUp, invoked>>
    /\ UNCHANGED <<httpVars, otherVars>>

\* an Err(_) arm that awaits the handler task before it returns
DeferredReturnReady_awaits(i) == responseTask[i] \in {"finished", "panicked"}

\* what the Err(_) arm waits for before it returns the deferred response:
\* nothing
DeferredReturnReady(i) == TRUE

\* Err(_) arm, second part (lib.rs:177-185): Ok(deferred) is returned
ReturnDeferred(i) ==
    /\ callerPc[i] = "deferring"
    /\ DeferredReturnReady(i)
    /\ callerPc' = [callerPc EXCEPT ![i] = "returned"]
    /\ callerResult' = [callerResult EXCEPT ![i] = Ok(DeferredResponse)]
    /\ UNCHANGED <<command_router, all_commands, router_view,
                   ret, interaction, branch, responseTask, chan,
                   timer, followUp, updateCalls, receivedBy, lookedUp, invoked>>
    /\ UNCHANGED <<httpVars, otherVars>>

\* the caller drops the future of handle while it is suspended in
\* timeout(..).await (the connection went away): rx and the JoinHandle are
\* dropped with it
DropDispatch(i) ==
    /\ callerPc[i] = "racing"
    /\ callerPc' = [callerPc EXCEPT ![i] = "dropped"]
    /\ chan' = [chan EXCEPT ![i].rx = "dropped"]
    /\ timer' = [timer EXCEPT ![i] = "dropped"]
    /\ responseTask' = [responseTask EXCEPT ![i] = DropJoinHandle(@)]
    /\ UNCHANGED <<command_router, all_commands, router_view,
                   ret, interaction, callerResult, branch, followUp,
                   updateCalls, receivedBy, lookedUp, invoked>>
    /\ UNCHANGED <<httpVars, otherVars>>

(***************************************************************************)
(* The follow-up task (lib.rs:155-175).                                    *)
(***************************************************************************)
\* Report::from_error(handling_error).to_string()
Report(error) == [tag |-> "Report", of |-> error]

\* the update_response request the follow-up task builds from the result:
\* Some(call), or None when building it panics (expect("TODO"))
UpdateRequest(response_res) ==
    IF response_res.tag = "Ok"
    THEN IF response_res.value.data = None THEN None
         ELSE Some([content |-> response_res.value.data.value.content,
                    embeds |-> response_res.value.data.value.embeds])
    ELSE Some([content |-> Some(Report(response_res.error)), embeds |-> None])

\* a follow-up task that keeps the result and tries again when the update
\* request fails
FollowUpTask_retrying(i) ==
    /\ followUp[i] = "waiting"
    /\ \/ /\ responseTask[i] = "panicked"
          /\ chan[i].value = None
          /\ followUp' = [followUp EXCEPT ![i] = "panicked"]
          /\ UNCHANGED <<chan, receivedBy, updateCalls>>
       \/ /\ chan[i].value # None
          /\ receivedBy' = [receivedBy EXCEPT ![i] = Append(@, "followup")]
          /\ LET update == UpdateRequest(chan[i].value.value) IN
                IF update = None
                THEN /\ followUp' = [followUp EXCEPT ![i] = "panicked"]
                     /\ chan' = [chan EXCEPT ![i] = [value |-> None, rx |-> "dropped"]]
                     /\ UNCHANGED updateCalls
                ELSE /\ updateCalls' = [updateCalls EXCEPT ![i] =
                            Append(@, update.value)]
                     /\ \/ /\ followUp' = [followUp EXCEPT ![i] = "done"]
                           /\ chan' = [chan EXCEPT ![i] =
                                    [value |-> None, rx |-> "dropped"]]
                        \/ UNCHANGED <<followUp, chan>>
    /\ UNCHANGED <<command_router, all_commands, router_view,
                   ret, interaction, callerPc, callerResult, branch,
                   responseTask, timer, lookedUp, invoked>>
    /\ UNCHANGED <<httpVars, otherVars>>

\* the whole task: rx.await.unwrap(), the request, its .await.unwrap()
FollowUpTask(i) ==
    /\ followUp[i] = "waiting"
    /\ \/ \* the sender was dropped unsent: rx.await.unwrap() panics
          /\ responseTask[i] = "panicked"
          /\ chan[i].value = None
          /\ followUp' = [followUp EXCEPT ![i] = "panicked"]
          /\ UNCHANGED <<chan, receivedBy, updateCalls>>
       \/ /\ chan[i].value # None
          /\ chan' = [chan EXCEPT ![i] = [value |-> None, rx |-> "dropped"]]
          /\ receivedBy' = [receivedBy EXCEPT ![i] = Append(@, "followup")]
          /\ LET update == UpdateRequest(chan[i].value.value) IN
                IF update = None
                THEN /\ followUp' = [followUp EXCEPT ![i] = "panicked"]
                     /\ UNCHANGED updateCalls
                ELSE /\ updateCalls' = [updateCalls EXCEPT ![i] =
                            Append(@, update.value)]
                     \* the request succeeds, or fails and .unwrap() panics
                     /\ \E outcome \in {"done", "panicked"} :
                            followUp' = [followUp EXCEPT ![i] = outcome]
    /\ UNCHANGED <<command_router, all_commands, router_view,
                   ret, interaction, callerPc, callerResult, branch,
                   responseTask, timer, lookedUp, invoked>>
    /\ UNCHANGED <<httpVars, otherVars>>

(***************************************************************************)
(* The dispatcher on its own: interactions as handle_post hands them over. *)
(***************************************************************************)
Dispatch(i) ==
    /\ \E ix \in InteractionValues : InteractionHandler_handle(i, ix)
    /\ UNCHANGED <<httpVars, otherVars>>

Next ==
    \E i \in Interactions :
        \/ Dispatch(i)
        \/ CommandRouter_handle(i)
        \/ HandlerReturns(i)
        \/ HandlerPanics(i)
        \/ TimerExpires(i)
        \/ PollTimeout(i)
        \/ ReturnDeferred(i)
        \/ DropDispatch(i)
        \/ FollowUpTask(i)

Spec == Init /\ [][Next]_vars

(***************************************************************************)
(* The HTTP boundary (via-axum/src/routes/discord/interactions.rs).        *)
(***************************************************************************)
FORBIDDEN == 403
BAD_REQUEST == 400
OK == 200
SignatureLength == 64

\* byte values of the timestamp header and of the body
Bytes == {0, 1}

SeqsUpTo(S, n) == UNION {[1..k -> S] : k \in 0..n}

Timestamps == SeqsUpTo(Bytes, MaxTimestampLen)
Bodies == SeqsUpTo(Bytes, MaxBodyLen)
Messages == SeqsUpTo(Bytes, MaxTimestampLen + MaxBodyLen)

\* Ed25519 as an ideal signature scheme: a signature is bound to the secret
\* key that made it and to the exact message it was made over
SecretKeys == {"discord", "attacker"}
PublicKeyOf(secret) == [public |-> secret]
Sign(secret, message) ==
    [length |-> SignatureLength, key |-> secret, message |-> message]

\* AppState.discord_application_public_key
discord_application_public_key == PublicKeyOf("discord")

\* a verification that checks who signed but not what was signed
PublicKey_verify_key_only(public_key, message, signature) ==
    IF PublicKeyOf(signature.key) = public_key
    THEN Ok(None) ELSE Err([tag |-> "SignatureMismatch"])

\* PublicKey::verify(message, &signature)
PublicKey_verify(public_key, message, signature) ==
    IF PublicKeyOf(signature.key) = public_key /\ signature.message = message
    THEN Ok(None) ELSE Err([tag |-> "SignatureMismatch"])

\* [body, timestamp].concat()
VerifiedMessage_reversed(body, timestamp) == body \o timestamp

\* [timestamp, body].concat()
VerifiedMessage(body, timestamp) == timestamp \o body

\* a verify that accepts every signature
verify_unchecked(body, timestamp, signature, public_key) == Ok(None)

\* fn verify
verify(body, timestamp, signature, public_key) ==
    LET checked ==
            PublicKey_verify(public_key, VerifiedMessage(body, timestamp), signature)
    IN IF checked.tag = "Ok" THEN Ok(None)
       ELSE Err([tag |-> "VerificationError", source |-> checked.error])

\* the text of an x-signature-ed25519 header: hex digits of some bytes, or not
HexText(bytes) == [hex |-> TRUE, bytes |-> bytes]
NotHexText == [hex |-> FALSE, bytes |-> None]

\* hex::decode
hex_decode(text) ==
    IF text.hex THEN Ok(text.bytes) ELSE Err([tag |-> "FromHexError"])

\* Signature::from_slice
Signature_from_slice(bytes) ==
    IF bytes.length = SignatureLength THEN Ok(bytes)
    ELSE Err([tag |-> "InvalidSignature"])

\* a signature cut short by one byte
Truncated(signature) == [signature EXCEPT !.length = @ - 1]

SignatureHeaders ==
    {None, Some(NotHexText)}
        \cup {Some(HexText(Sign(k, m))) : k \in SecretKeys, m \in Messages}
        \cup {Some(HexText(Truncated(Sign(k, m)))) : k \in SecretKeys, m \in Messages}

TimestampHeaders == {None} \cup {Some(t) : t \in Timestamps}

\* the requests the listener hands over (bodies within axum's body limit)
Requests == [signature : SignatureHeaders, timestamp : TimestampHeaders,
             body : Bodies]

\* (status_code, body).into_response()
Response(status, body) == [status |-> status, body |-> body]

\* the rejection of TypedHeader for a header that is missing
TypedHeaderRejection(name) ==
    Response(BAD_REQUEST, <<"Header was missing", name>>)

\* impl IntoResponse for SignatureInvalidHex
SignatureInvalidHex_into_response ==
    Response(BAD_REQUEST, "the given signature is not represented in hex")

\* impl IntoResponse for SignatureInvalidKey
SignatureInvalidKey_into_response ==
    Response(BAD_REQUEST,
        "the given signature does not represent a valid ED25519 compact signature")

\* impl IntoResponse for VerificationError
VerificationError_into_response ==
    Response(FORBIDDEN, "this message was not signed with the private key corresponding to this public key")

\* Ed25519Verified::from_request: Ok(body), or Err(response) at the first
\* step that fails; `verified` is what verify returned, None when not reached
Ed25519Verified(req, public_key) ==
    IF req.signature = None
        THEN [result |-> Err(TypedHeaderRejection("x-signature-ed25519")),
              verified |-> None]
    ELSE LET decoded == hex_decode(req.signature.value) IN
    IF decoded.tag = "Err"
        THEN [result |-> Err(SignatureInvalidHex_into_response), verified |-> None]
    ELSE LET signature == Signature_from_slice(decoded.value) IN
    IF signature.tag = "Err"
        THEN [result |-> Err(SignatureInvalidKey_into_response), verified |-> None]
    ELSE IF req.timestamp = None
        THEN [result |-> Err(TypedHeaderRejection("x-signature-timestamp")),
              verified |-> None]
    ELSE LET checked == verify(req.body, req.timestamp.value, signature.value,
                               public_key) IN
    IF checked.tag = "Err"
        THEN [result |-> Err(VerificationError_into_response),
              verified |-> Some(checked)]
        ELSE [result |-> Ok(req.body), verified |-> Some(checked)]

\* serde_json::from_slice::<Interaction>, on a wire format of at most two
\* bytes: the kind, then the data; anything else does not deserialize
WireKind(byte) ==
    IF byte = 0 THEN "Ping"
    ELSE IF byte = 1 THEN "ApplicationCommand"
    ELSE "Unknown"

WireData(byte) ==
    IF byte = 0 THEN [tag |-> "ApplicationCommand", name |-> NewRelease]
    ELSE IF byte = 1 THEN [tag |-> "ApplicationCommand", name |-> DoesNotExist]
    ELSE [tag |-> "MessageComponent"]

from_slice(body) ==
    IF Len(body) = 1 THEN Ok([kind |-> WireKind(body[1]), data |-> None])
    ELSE IF Len(body) = 2
        THEN Ok([kind |-> WireKind(body[1]), data |-> WireData(body[2])])
    ELSE Err([tag |-> "DeserializationError"])

\* the interaction handle_post dispatches: the first
HttpInteraction == CHOOSE i \in Interactions : \A j \in Interactions : i <= j

\* a request arrives
ReceiveRequest ==
    /\ httpPc = "listening"
    /\ \E req \in Requests : request' = Some(req)
    /\ httpPc' = "received"
    /\ UNCHANGED <<verification, deserialized, httpResponse>>
    /\ UNCHANGED <<dispatchVars, otherVars>>

\* a JSON extractor that deserializes the body as soon as it has the request
DeserializeReady_early == httpPc \in {"received", "verified"}

\* what Ed25519VerifiedJson::from_request has to have before it deserializes
\* the body: the Ed25519Verified extractor's Ok
DeserializeReady == httpPc = "verified"

\* Ed25519VerifiedJson::from_request, first part: the Ed25519Verified
\* extractor (interactions.rs:149-184, called at 202)
Ed25519Verified_from_request ==
    /\ httpPc = "received"
    /\ LET extracted == Ed25519Verified(request.value, discord_application_public_key) IN
        /\ verification' = extracted.verified
        /\ IF extracted.result.tag = "Ok"
           THEN /\ httpPc' = "verified"
                /\ UNCHANGED httpResponse
           ELSE /\ httpPc' = "responded"
                /\ httpResponse' = Some(extracted.result.error)
    /\ UNCHANGED <<request, deserialized>>
    /\ UNCHANGED <<dispatchVars, otherVars>>

\* a rejection of an undeserializable body as unprocessable
DeserializationRejection_unprocessable(deserialization_error) ==
    Response(422, deserialization_error)

\* (StatusCode::BAD_REQUEST, deserialization_error.to_string()).into_response()
DeserializationRejection(deserialization_error) ==
    Response(BAD_REQUEST, deserialization_error)

\* Ed25519VerifiedJson::from_request, second part: serde_json::from_slice
\* (interactions.rs:204-208)
Ed25519VerifiedJson_from_request ==
    /\ DeserializeReady
    /\ deserialized = None
    /\ LET parsed == from_slice(request.value.body) IN
        /\ deserialized' = Some(parsed)
        /\ IF parsed.tag = "Ok"
           THEN /\ httpPc' = "extracted"
                /\ UNCHANGED httpResponse
           ELSE /\ httpPc' = "responded"
                /\ httpResponse' = Some(DeserializationRejection(parsed.error))
    /\ UNCHANGED <<request, verification>>
    /\ UNCHANGED <<dispatchVars, otherVars>>

\* handle_post, up to the await of discord_interaction_handler.handle
handle_post ==
    /\ httpPc = "extracted"
    /\ InteractionHandler_handle(HttpInteraction, deserialized.value.value)
    /\ httpPc' = "handling"
    /\ UNCHANGED <<request, verification, deserialized, httpResponse>>
    /\ UNCHANGED otherVars

\* handle_post, the match on what handle returned: Json(response), or todo!()
handle_post_return ==
    /\ httpPc = "handling"
    /\ callerPc[HttpInteraction] \in {"returned", "panicked", "dropped"}
    /\ IF callerPc[HttpInteraction] = "returned"
          /\ callerResult[HttpInteraction].tag = "Ok"
       THEN /\ httpPc' = "responded"
            /\ httpResponse' =
                    Some(Response(OK, callerResult[HttpInteraction].value))
       ELSE IF callerPc[HttpInteraction] = "dropped"
       THEN /\ httpPc' = "dropped"
            /\ UNCHANGED httpResponse
       ELSE /\ httpPc' = "panicked"
            /\ UNCHANGED httpResponse
    /\ UNCHANGED <<request, verification, deserialized>>
    /\ UNCHANGED <<dispatchVars, otherVars>>

\* one request through the boundary and the dispatcher
HttpNext ==
    \/ ReceiveRequest
    \/ Ed25519Verified_from_request
    \/ Ed25519VerifiedJson_from_request
    \/ handle_post
    \/ handle_post_return
    \/ CommandRouter_handle(HttpInteraction)
    \/ HandlerReturns(HttpInteraction)
    \/ HandlerPanics(HttpInteraction)
    \/ TimerExpires(HttpInteraction)
    \/ PollTimeout(HttpInteraction)
    \/ ReturnDeferred(HttpInteraction)
    \/ DropDispatch(HttpInteraction)
    \/ FollowUpTask(HttpInteraction)

HttpSpec == Init /\ [][HttpNext]_vars

(***************************************************************************)
(* The router built from any sequence of entries (command.rs from_iter),   *)
(* and one interaction dispatched through it.                              *)
(***************************************************************************)
\* names next to the catalog's: a proper prefix of it, an extension of it,
\* and one that differs from it in letter case only
NewReleasePrefix == SubSeq(NewRelease, 1, 3)
NewReleaseExtension == NewRelease \o <<"s">>
NewReleaseCapitalized == [NewRelease EXCEPT ![1] = "N"]

RouterNames ==
    {NewRelease, NewReleasePrefix, NewReleaseExtension, NewReleaseCapitalized,
     DoesNotExist}

\* handlers an entry can pair with a name
Handlers == {"new_release::handle", "other::handle"}

\* what from_iter can be given: sequences of (command, handler) pairs
Catalogs == SeqsUpTo([name : RouterNames, handler : Handlers], MaxEntries)

RouterInteractionValues ==
    {ix \in [kind : InteractionTypes,
             data : {None, [tag |-> "MessageComponent"]}
                        \cup {[tag |-> "ApplicationCommand", name |-> n] :
                                n \in RouterNames}] :
        ix.kind # "ApplicationCommand" => ix.data = None}

\* CommandRouter::default(): nothing registered, no InteractionHandler yet
RouterInit ==
    /\ command_router = <<>>
    /\ all_commands = None
    /\ router_view = [i \in Interactions |-> None]
    /\ interaction = [i \in Interactions |-> NoInteraction]
    /\ callerPc = [i \in Interactions |-> "idle"]
    /\ callerResult = [i \in Interactions |-> None]
    /\ branch = [i \in Interactions |-> "none"]
    /\ responseTask = [i \in Interactions |-> "none"]
    /\ chan = [i \in Interactions |-> [value |-> None, rx |-> "none"]]
    /\ timer = [i \in Interactions |-> "none"]
    /\ followUp = [i \in Interactions |-> "none"]
    /\ updateCalls = [i \in Interactions |-> <<>>]
    /\ receivedBy = [i \in Interactions |-> <<>>]
    /\ lookedUp = [i \in Interactions |-> 0]
    /\ invoked = [i \in Interactions |-> <<>>]
    /\ ret = [i \in Interactions |-> None]
    /\ httpPc = "listening"
    /\ request = None
    /\ verification = None
    /\ deserialized = None
    /\ httpResponse = None
    /\ strings = <<<<>>, <<>>>>
    /\ ordering = None
    /\ equal = None
    /\ btreemap = None
    /\ InitNotCalled(<<>>)
    /\ NoRelease

\* CommandRouter::from_iter on any entries; the InteractionHandler owns the
\* router it returns
CommandRouter_from_iter ==
    /\ all_commands = None
    /\ \E entries \in Catalogs :
        /\ all_commands' = Some(entries)
        /\ command_router' = from_iter(entries)
    /\ UNCHANGED <<router_view, interaction, callerPc, callerResult, branch,
                   responseTask, chan, timer, followUp, updateCalls, receivedBy,
                   lookedUp, invoked, ret>>
    /\ UNCHANGED <<httpVars, otherVars>>

\* CommandRouter::add on the router after a task has taken its clone: the
\* one insertion that follows the view
CommandRouter_add ==
    /\ router_view[HttpInteraction] = Some(command_router)
    /\ \E name \in RouterNames, handler \in Handlers :
            command_router' = add_already_arced(command_router, name, handler)
    /\ UNCHANGED <<all_commands, router_view, interaction, callerPc, callerResult,
                   branch, responseTask, chan, timer, followUp, updateCalls,
                   receivedBy, lookedUp, invoked, ret>>
    /\ UNCHANGED <<httpVars, otherVars>>

\* the InteractionHandler is given an interaction
RouterDispatch ==
    /\ all_commands # None
    /\ \E ix \in RouterInteractionValues :
            InteractionHandler_handle(HttpInteraction, ix)
    /\ UNCHANGED <<httpVars, otherVars>>

RouterNext ==
    \/ CommandRouter_from_iter
    \/ RouterDispatch
    \/ CommandRouter_add
    \/ CommandRouter_handle(HttpInteraction)
    \/ HandlerReturns(HttpInteraction)
    \/ HandlerPanics(HttpInteraction)
    \/ TimerExpires(HttpInteraction)
    \/ PollTimeout(HttpInteraction)
    \/ ReturnDeferred(HttpInteraction)
    \/ DropDispatch(HttpInteraction)
    \/ FollowUpTask(HttpInteraction)

RouterSpec == RouterInit /\ [][RouterNext]_vars

(***************************************************************************)
(* The new-release handler (command/new_release.rs), invoked by the        *)
(* dispatcher for one interaction.                                         *)
(***************************************************************************)
\* the `url` option of the command data: absent, of another type, a string
\* that is not a URL, a string that is one
UrlOptions ==
    {None,
     Some([type |-> "Integer", parses |-> FALSE]),
     Some([type |-> "String", parses |-> FALSE]),
     Some([type |-> "String", parses |-> TRUE])}

\* Interaction.guild_id
GuildIds == {None, Some("guild")}

\* new-release interactions as the platform sends them
NewReleaseInteractions ==
    {[kind |-> "ApplicationCommand",
      data |-> [tag |-> "ApplicationCommand", name |-> NewRelease, url |-> u],
      guild_id |-> g] : u \in UrlOptions, g \in GuildIds}

\* what get_roles_map can resolve to
RolesOutcomes ==
    {Ok("roles_map"), Err([tag |-> "FetchRolesError"]),
     Err([tag |-> "DeserializeRolesError"])}

\* what get_release can resolve to
ReleaseOutcomes ==
    {Ok("release"), Err([tag |-> "SpotifyError"]),
     Err([tag |-> "SemanticDataError"])}

\* tokio::try_join! of the two fetches with their .context(..): both values,
\* or the error of a fetch that failed (of either, when both fail)
try_join(roles, release) ==
    IF roles.tag = "Ok" /\ release.tag = "Ok"
    THEN {Ok(<<roles.value, release.value>>)}
    ELSE (IF roles.tag = "Err"
          THEN {Err([tag |-> "RolesMapError", source |-> roles.error])} ELSE {})
         \cup
         (IF release.tag = "Err"
          THEN {Err([tag |-> "ReleaseError", source |-> release.error])} ELSE {})

\* the response of a successful handle_impl
SuccessResponse(fetched) ==
    InteractionResponse("ChannelMessageWithSource",
        InteractionResponseData(
            Some("Copy the Content, edit it to fix any mistakes, then post it."),
            Some(<<[title |-> "Content", description |-> fetched],
                   [title |-> "Preview", description |-> fetched]>>),
            "EPHEMERAL"))

\* handle_impl: the results it can return for an interaction and the two
\* fetches
handle_impl(ix, roles, release) ==
    IF ix.guild_id = None THEN {Err([tag |-> "NotUsedInGuild"])}
    ELSE IF ix.data.url = None THEN {Err([tag |-> "UrlMissing"])}
    ELSE IF ix.data.url.value.type # "String"
        THEN {Err([tag |-> "UrlNotString", actual |-> ix.data.url.value.type])}
    ELSE IF ~ix.data.url.value.parses THEN {Err([tag |-> "UrlParseError"])}
    ELSE {IF joined.tag = "Ok" THEN Ok(SuccessResponse(joined.value)) ELSE joined :
            joined \in try_join(roles, release)}

\* an error response that everyone in the channel sees
From_HandleError_public(error) ==
    InteractionResponse("ChannelMessageWithSource",
        InteractionResponseData(None,
            Some(<<[title |-> "Error", description |-> Report(error)]>>),
            "none"))

\* impl From<HandleError> for InteractionResponse
From_HandleError(error) ==
    InteractionResponse("ChannelMessageWithSource",
        InteractionResponseData(None,
            Some(<<[title |-> "Error", description |-> Report(error)]>>),
            "EPHEMERAL"))

\* new_release::handle: the responses it can return
new_release_handle(ix, roles, release) ==
    {IF result.tag = "Ok" THEN result.value ELSE From_HandleError(result.error) :
        result \in handle_impl(ix, roles, release)}

\* the platform sends a new-release interaction
NewReleaseDispatch ==
    /\ \E ix \in NewReleaseInteractions :
            InteractionHandler_handle(HttpInteraction, ix)
    /\ UNCHANGED <<httpVars, otherVars>>

\* response_task, second stretch, for new_release::handle
NewReleaseReturns(i) ==
    /\ responseTask[i] = "invoked"
    /\ \E roles \in RolesOutcomes, release \in ReleaseOutcomes :
        \E response \in new_release_handle(interaction[i], roles, release) :
            SendAndFinish(i, Ok(response))
    /\ UNCHANGED <<command_router, all_commands, router_view,
                   interaction, callerPc, callerResult, branch,
                   timer, followUp, updateCalls, receivedBy, lookedUp, invoked>>
    /\ UNCHANGED <<httpVars, otherVars>>

NewReleaseNext ==
    \/ NewReleaseDispatch
    \/ CommandRouter_handle(HttpInteraction)
    \/ NewReleaseReturns(HttpInteraction)
    \/ TimerExpires(HttpInteraction)
    \/ PollTimeout(HttpInteraction)
    \/ ReturnDeferred(HttpInteraction)
    \/ DropDispatch(HttpInteraction)
    \/ FollowUpTask(HttpInteraction)

NewReleaseSpec == Init /\ [][NewReleaseNext]_vars

(***************************************************************************)
(* CaseInsensitiveString (case_insensitive.rs), on its own.                *)
(***************************************************************************)
\* bytes strings are made of: 'A', 'Z', '[' (the byte after 'Z') and 'a'
CaseBytes == {65, 90, 91, 97}

CaseStrings == SeqsUpTo(CaseBytes, MaxStringLen)

\* a lowercasing that leaves every byte as it is
to_ascii_lowercase_identity(byte) == byte

\* u8::to_ascii_lowercase
to_ascii_lowercase(byte) == IF 65 <= byte /\ byte <= 90 THEN byte + 32 ELSE byte

\* Ord for u8
u8_cmp(x, y) == IF x < y THEN "Less" ELSE IF x > y THEN "Greater" ELSE "Equal"

\* a comparison that ends with the zip
CaseInsensitive_cmp_zip_only(self, other) ==
    LET zipped == 1..(IF Len(self) <= Len(other) THEN Len(self) ELSE Len(other))
        differing ==
            {k \in zipped :
                to_ascii_lowercase(self[k]) # to_ascii_lowercase(other[k])}
    IN IF differing # {}
       THEN LET k == CHOOSE d \in differing : \A e \in differing : d <= e
            IN u8_cmp(to_ascii_lowercase(self[k]), to_ascii_lowercase(other[k]))
       ELSE "Equal"

\* Ord for CaseInsensitive: the loop over zip(self.0, other.0) returns at the
\* first pair that differs after lowercasing; then the lengths decide
CaseInsensitive_cmp(self, other) ==
    LET zipped == 1..(IF Len(self) <= Len(other) THEN Len(self) ELSE Len(other))
        differing ==
            {k \in zipped :
                to_ascii_lowercase(self[k]) # to_ascii_lowercase(other[k])}
    IN IF differing # {}
       THEN LET k == CHOOSE d \in differing : \A e \in differing : d <= e
            IN u8_cmp(to_ascii_lowercase(self[k]), to_ascii_lowercase(other[k]))
       ELSE u8_cmp(Len(self), Len(other))

\* PartialEq for CaseInsensitive
CaseInsensitive_eq(self, other) == CaseInsensitive_cmp(self, other) = "Equal"

\* Ord for CaseInsensitiveString
CaseInsensitiveString_cmp(self, other) == CaseInsensitive_cmp(self, other)

\* PartialEq for CaseInsensitiveString
CaseInsensitiveString_eq(self, other) == CaseInsensitive_eq(self, other)

\* BTreeMap::insert: the entries are kept in the order of the keys' cmp; an
\* entry whose key compares Equal keeps its key and takes the new value
RECURSIVE BTreeMap_insert(_, _, _)
BTreeMap_insert(map, key, value) ==
    IF map = <<>> THEN <<[key |-> key, value |-> value]>>
    ELSE LET compared == CaseInsensitiveString_cmp(key, Head(map).key) IN
         IF compared = "Less" THEN <<[key |-> key, value |-> value]>> \o map
         ELSE IF compared = "Equal"
            THEN <<[key |-> Head(map).key, value |-> value]>> \o Tail(map)
         ELSE <<Head(map)>> \o BTreeMap_insert(Tail(map), key, value)

\* BTreeMap::get: a search by cmp that relies on the order of the entries
RECURSIVE BTreeMap_get(_, _)
BTreeMap_get(map, key) ==
    IF map = <<>> THEN None
    ELSE LET compared == CaseInsensitiveString_cmp(key, Head(map).key) IN
         IF compared = "Equal" THEN Some(Head(map).value)
         ELSE IF compared = "Less" THEN None
         ELSE BTreeMap_get(Tail(map), key)

\* two strings, nothing compared yet
CaseInit ==
    /\ strings \in CaseStrings \X CaseStrings
    /\ ordering = None
    /\ equal = None
    /\ btreemap = None
    /\ command_router = from_iter(all)
    /\ all_commands = Some(all)
    /\ router_view = [i \in Interactions |-> None]
    /\ interaction = [i \in Interactions |-> NoInteraction]
    /\ callerPc = [i \in Interactions |-> "idle"]
    /\ callerResult = [i \in Interactions |-> None]
    /\ branch = [i \in Interactions |-> "none"]
    /\ responseTask = [i \in Interactions |-> "none"]
    /\ chan = [i \in Interactions |-> [value |-> None, rx |-> "none"]]
    /\ timer = [i \in Interactions |-> "none"]
    /\ followUp = [i \in Interactions |-> "none"]
    /\ updateCalls = [i \in Interactions |-> <<>>]
    /\ receivedBy = [i \in Interactions |-> <<>>]
    /\ lookedUp = [i \in Interactions |-> 0]
    /\ invoked = [i \in Interactions |-> <<>>]
    /\ ret = [i \in Interactions |-> None]
    /\ httpPc = "listening"
    /\ request = None
    /\ verification = None
    /\ deserialized = None
    /\ httpResponse = None
    /\ InitReturned(all)
    /\ NoRelease

\* CaseInsensitiveString(a).cmp(&CaseInsensitiveString(b))
Compare ==
    /\ ordering = None
    /\ ordering' = Some(CaseInsensitiveString_cmp(strings[1], strings[2]))
    /\ UNCHANGED <<strings, equal, btreemap>>
    /\ UNCHANGED <<dispatchVars, httpVars, nonCaseVars>>

\* CaseInsensitiveString(a) == CaseInsensitiveString(b)
TestEqual ==
    /\ equal = None
    /\ equal' = Some(CaseInsensitiveString_eq(strings[1], strings[2]))
    /\ UNCHANGED <<strings, ordering, btreemap>>
    /\ UNCHANGED <<dispatchVars, httpVars, nonCaseVars>>

\* BTreeMap::from_iter([(CaseInsensitiveString(a), ..), (CaseInsensitiveString(b), ..)])
BuildBTreeMap ==
    /\ btreemap = None
    /\ btreemap' =
            Some(BTreeMap_insert(BTreeMap_insert(<<>>, strings[1], "first"),
                                 strings[2], "second"))
    /\ UNCHANGED <<strings, ordering, equal>>
    /\ UNCHANGED <<dispatchVars, httpVars, nonCaseVars>>

CaseNext == Compare \/ TestEqual \/ BuildBTreeMap

CaseSpec == CaseInit /\ [][CaseNext]_vars

(***************************************************************************)
(* init (lib.rs:55-110).  The catalog is any sequence of entries; the      *)
(* platform answers each of the two requests, and the reading of each      *)
(* answer, with success or failure.                                        *)
(***************************************************************************)
PlatformReplies == {"Ok", "Err"}

\* before init is called: no router, no InteractionHandler
InitInit ==
    /\ command_router = <<>>
    /\ all_commands = None
    /\ router_view = [i \in Interactions |-> None]
    /\ interaction = [i \in Interactions |-> NoInteraction]
    /\ callerPc = [i \in Interactions |-> "idle"]
    /\ callerResult = [i \in Interactions |-> None]
    /\ branch = [i \in Interactions |-> "none"]
    /\ responseTask = [i \in Interactions |-> "none"]
    /\ chan = [i \in Interactions |-> [value |-> None, rx |-> "none"]]
    /\ timer = [i \in Interactions |-> "none"]
    /\ followUp = [i \in Interactions |-> "none"]
    /\ updateCalls = [i \in Interactions |-> <<>>]
    /\ receivedBy = [i \in Interactions |-> <<>>]
    /\ lookedUp = [i \in Interactions |-> 0]
    /\ invoked = [i \in Interactions |-> <<>>]
    /\ ret = [i \in Interactions |-> None]
    /\ httpPc = "listening"
    /\ request = None
    /\ verification = None
    /\ deserialized = None
    /\ httpResponse = None
    /\ strings = <<<<>>, <<>>>>
    /\ ordering = None
    /\ equal = None
    /\ btreemap = None
    /\ \E entries \in Catalogs : InitNotCalled(entries)
    /\ NoRelease

\* a context that lets a failure pass as success
context_swallowing(reply, error) == Ok("value")

\* .context(..Snafu): a failure becomes the InitError variant
context(reply, error) ==
    IF reply = "Ok" THEN Ok("value") ELSE Err([tag |-> error])

\* `?` on a step of init: return the InitError, or go on to the next step
Try(result, next) ==
    IF result.tag = "Err"
        THEN /\ initPc' = "returned"
             /\ initResult' = result
        ELSE /\ initPc' = next
             /\ UNCHANGED initResult

\* discord_client.current_user_application().await
\*     .context(GetCurrentApplicationSnafu)?  (lib.rs:65-68)
current_user_application ==
    /\ initPc = "start"
    /\ \E reply \in PlatformReplies :
        /\ replies' = Append(replies, reply)
        /\ Try(context(reply, "GetCurrentApplication"), "application_response")
    /\ UNCHANGED <<catalog, discord_commands, platform>>
    /\ UNCHANGED <<dispatchVars, httpVars, caseVars, releaseVars>>

\* .model().await.context(DeserializeCurrentApplicationSnafu)?  (lib.rs:69-71)
current_user_application_model ==
    /\ initPc = "application_response"
    /\ \E reply \in PlatformReplies :
        /\ replies' = Append(replies, reply)
        /\ Try(context(reply, "DeserializeCurrentApplication"), "application")
    /\ UNCHANGED <<catalog, discord_commands, platform>>
    /\ UNCHANGED <<dispatchVars, httpVars, caseVars, releaseVars>>

\* command::all(), the names collected from it, and
\* set_global_commands(&discord_commands).await
\*     .context(SetInteractionCommandsSnafu)?  (lib.rs:77-87); a request that
\* fails may or may not have been applied by the platform
set_global_commands ==
    /\ initPc = "application"
    /\ discord_commands' = Some(CommandsOf(catalog))
    /\ \E reply \in PlatformReplies :
        /\ replies' = Append(replies, reply)
        /\ IF reply = "Ok"
           THEN platform' = Some(CommandsOf(catalog))
           ELSE platform' \in {platform, Some(CommandsOf(catalog))}
        /\ Try(context(reply, "SetInteractionCommands"), "commands_response")
    /\ UNCHANGED catalog
    /\ UNCHANGED <<dispatchVars, httpVars, caseVars, releaseVars>>

\* .models().await.context(DeserializeInteractionCommandsSnafu)?  (lib.rs:88-90)
set_global_commands_models ==
    /\ initPc = "commands_response"
    /\ \E reply \in PlatformReplies :
        /\ replies' = Append(replies, reply)
        /\ Try(context(reply, "DeserializeInteractionCommands"), "registered")
    /\ UNCHANGED <<catalog, discord_commands, platform>>
    /\ UNCHANGED <<dispatchVars, httpVars, caseVars, releaseVars>>

\* CommandRouter::from_iter(all_commands), InteractionHandler { command_router },
\* the clients and the State, Ok((interaction_handler, state))  (lib.rs:92-109)
init_return ==
    /\ initPc = "registered"
    /\ command_router' = from_iter(catalog)
    /\ all_commands' = Some(catalog)
    /\ initResult' = InitOk(from_iter(catalog))
    /\ initPc' = "returned"
    /\ UNCHANGED <<catalog, discord_commands, platform, replies>>
    /\ UNCHANGED <<router_view, interaction, callerPc, callerResult, branch,
                   responseTask, chan, timer, followUp, updateCalls, receivedBy,
                   lookedUp, invoked, ret>>
    /\ UNCHANGED <<httpVars, caseVars, releaseVars>>

InitNext ==
    \/ current_user_application
    \/ current_user_application_model
    \/ set_global_commands
    \/ set_global_commands_models
    \/ init_return

InitSpec == InitInit /\ [][InitNext]_vars

(***************************************************************************)
(* parse_list_of_artists (new_release.rs:631-644).  A String is a sequence *)
(* of characters: a letter, the comma, the space and the ampersand.        *)
(***************************************************************************)
MaxArtistsLen == 8

ArtistChars == {"a", ",", " ", "&"}

ArtistStrings == SeqsUpTo(ArtistChars, MaxArtistsLen)

CommaSpace == <<",", " ">>
SpaceAmpersandSpace == <<" ", "&", " ">>

\* where the pattern matches in the string
Matches(s, pattern) ==
    {k \in 1..(Len(s) - Len(pattern) + 1) :
        SubSeq(s, k, k + Len(pattern) - 1) = pattern}

Min(S) == CHOOSE x \in S : \A y \in S : x <= y
Max(S) == CHOOSE x \in S : \A y \in S : x >= y

\* str::split(pattern): the substrings between the matches found from the
\* left, first to last
RECURSIVE split(_, _)
split(s, pattern) ==
    IF Matches(s, pattern) = {} THEN <<s>>
    ELSE LET k == Min(Matches(s, pattern)) IN
         <<SubSeq(s, 1, k - 1)>>
            \o split(SubSeq(s, k + Len(pattern), Len(s)), pattern)

\* str::rsplit(pattern): the substrings between the matches found from the
\* right, last to first
RECURSIVE rsplit(_, _)
rsplit(s, pattern) ==
    IF Matches(s, pattern) = {} THEN <<s>>
    ELSE LET k == Max(Matches(s, pattern)) IN
         <<SubSeq(s, k + Len(pattern), Len(s))>>
            \o rsplit(SubSeq(s, 1, k - 1), pattern)

\* NonEmptyVec::collect: None for an iterator without items
NonEmptyVec_collect(items) ==
    IF items = <<>> THEN None
    ELSE Some([head |-> Head(items), tail |-> Tail(items)])

\* a reverse that leaves the Vec as it is
reverse_noop(items) == items

\* Vec::reverse
reverse(items) == [k \in 1..Len(items) |-> items[Len(items) + 1 - k]]

\* parse_list_of_artists: Ok(NonEmptyVec), or "panicked" where an expect fails
parse_list_of_artists(joined) ==
    LET collected == NonEmptyVec_collect(rsplit(joined, CommaSpace)) IN
    IF collected = None THEN [tag |-> "panicked"]
    ELSE LET last == collected.value.head
             last_ampersand == split(last, SpaceAmpersandSpace)
             rest == reverse(collected.value.tail)
             chained == NonEmptyVec_collect(rest \o last_ampersand)
         IN  IF chained = None THEN [tag |-> "panicked"]
             ELSE Ok(chained.value)

\* a joined artist string arrives
ParseInit ==
    /\ command_router = from_iter(all)
    /\ all_commands = Some(all)
    /\ router_view = [i \in Interactions |-> None]
    /\ interaction = [i \in Interactions |-> NoInteraction]
    /\ callerPc = [i \in Interactions |-> "idle"]
    /\ callerResult = [i \in Interactions |-> None]
    /\ branch = [i \in Interactions |-> "none"]
    /\ responseTask = [i \in Interactions |-> "none"]
    /\ chan = [i \in Interactions |-> [value |-> None, rx |-> "none"]]
    /\ timer = [i \in Interactions |-> "none"]
    /\ followUp = [i \in Interactions |-> "none"]
    /\ updateCalls = [i \in Interactions |-> <<>>]
    /\ receivedBy = [i \in Interactions |-> <<>>]
    /\ lookedUp = [i \in Interactions |-> 0]
    /\ invoked = [i \in Interactions |-> <<>>]
    /\ ret = [i \in Interactions |-> None]
    /\ httpPc = "listening"
    /\ request = None
    /\ verification = None
    /\ deserialized = None
    /\ httpResponse = None
    /\ strings = <<<<>>, <<>>>>
    /\ ordering = None
    /\ equal = None
    /\ btreemap = None
    /\ InitReturned(all)
    /\ artists_joined \in ArtistStrings
    /\ artists = None
    /\ music_album = None
    /\ ld_json_release = None

\* parse_list_of_artists(artists_joined)
ParseListOfArtists ==
    /\ artists = None
    /\ artists' = Some(parse_list_of_artists(artists_joined))
    /\ UNCHANGED <<artists_joined, music_album, ld_json_release>>
    /\ UNCHANGED <<dispatchVars, httpVars, caseVars, initVars>>

ParseNext == ParseListOfArtists

ParseSpec == ParseInit /\ [][ParseNext]_vars

(***************************************************************************)
(* get_release_from_ld_json, from the first MusicAlbum of the page on      *)
(* (new_release.rs:293-429).  Of each field only what the function asks    *)
(* of it is kept: whether it is there, the declared release type and the   *)
(* number of items in the track list.                                      *)
(***************************************************************************)
MaxTracks == 8

\* schema_org::MusicAlbumReleaseType
MusicAlbumReleaseTypes ==
    {"AlbumRelease", "BroadcastRelease", "EPRelease", "SingleRelease"}

Optional(S) == {None} \cup {Some(x) : x \in S}

MusicAlbums ==
    [id : Optional({"url"}),
     album_release_type : Optional(MusicAlbumReleaseTypes),
     name : Optional({"title"}),
     date : Optional({"date"}),
     by_artist : Optional({"artists"}),
     track : Optional(0..MaxTracks)]

\* ReleaseType
Single == [tag |-> "Single"]
EP == [tag |-> "EP"]
LP == [tag |-> "LP"]
Other(text) == [tag |-> "Other", text |-> text]

\* the match on album_release_type (new_release.rs:325-332)
release_type_of(declared) ==
    CASE declared = "AlbumRelease" -> LP
      [] declared = "BroadcastRelease" ->
            Other("Broadcast (I don't know what this means)")
      [] declared = "EPRelease" -> EP
      [] declared = "SingleRelease" -> Single

\* a classification whose first boundary includes three tracks
by_track_count_inclusive(release_type, len) ==
    IF release_type = LP
        THEN IF len <= 3 THEN Single
             ELSE IF len < 7 THEN EP
             ELSE LP
    ELSE release_type

\* the second look at release_type, by tracks.len() (new_release.rs:402-413)
by_track_count(release_type, len) ==
    IF release_type = LP
        THEN IF len < 3 THEN Single
             ELSE IF len < 7 THEN EP
             ELSE LP
    ELSE release_type

\* get_release_from_ld_json: the first missing field is the error
get_release_from_ld_json(album) ==
    IF album.id = None THEN Err([tag |-> "NoUrl"])
    ELSE IF album.album_release_type = None THEN Err([tag |-> "NoReleaseType"])
    ELSE IF album.name = None THEN Err([tag |-> "NoTitle"])
    ELSE IF album.date = None THEN Err([tag |-> "NoDate"])
    ELSE IF album.by_artist = None THEN Err([tag |-> "NoArtists"])
    ELSE IF album.track = None THEN Err([tag |-> "NoTracks"])
    ELSE Ok([url |-> album.id.value,
             kind |-> by_track_count(
                        release_type_of(album.album_release_type.value),
                        album.track.value),
             title |-> album.name.value,
             date |-> album.date.value,
             tracks |-> album.track.value])

\* a page with a MusicAlbum arrives
LdJsonInit ==
    /\ command_router = from_iter(all)
    /\ all_commands = Some(all)
    /\ router_view = [i \in Interactions |-> None]
    /\ interaction = [i \in Interactions |-> NoInteraction]
    /\ callerPc = [i \in Interactions |-> "idle"]
    /\ callerResult = [i \in Interactions |-> None]
    /\ branch = [i \in Interactions |-> "none"]
    /\ responseTask = [i \in Interactions |-> "none"]
    /\ chan = [i \in Interactions |-> [value |-> None, rx |-> "none"]]
    /\ timer = [i \in Interactions |-> "none"]
    /\ followUp = [i \in Interactions |-> "none"]
    /\ updateCalls = [i \in Interactions |-> <<>>]
    /\ receivedBy = [i \in Interactions |-> <<>>]
    /\ lookedUp = [i \in Interactions |-> 0]
    /\ invoked = [i \in Interactions |-> <<>>]
    /\ ret = [i \in Interactions |-> None]
    /\ httpPc = "listening"
    /\ request = None
    /\ verification = None
    /\ deserialized = None
    /\ httpResponse = None
    /\ strings = <<<<>>, <<>>>>
    /\ ordering = None
    /\ equal = None
    /\ btreemap = None
    /\ InitReturned(all)
    /\ artists_joined = <<>>
    /\ artists = None
    /\ music_album \in Optional(MusicAlbums) \ {None}
    /\ ld_json_release = None

\* get_release_from_ld_json on the page
GetReleaseFromLdJson ==
    /\ ld_json_release = None
    /\ ld_json_release' = Some(get_release_from_ld_json(music_album.value))
    /\ UNCHANGED <<artists_joined, artists, music_album>>
    /\ UNCHANGED <<dispatchVars, httpVars, caseVars, initVars>>

LdJsonNext == GetReleaseFromLdJson

LdJsonSpec == LdJsonInit /\ [][LdJsonNext]_vars

(***************************************************************************)
(* Properties of the dispatch race.                                        *)
(***************************************************************************)
IsCommand(i) == interaction[i].kind = "ApplicationCommand"

\* the handler task of i ended by sending its result
Completed(i) == responseTask[i] = "finished"

\* C1: when the handler task has completed by the time timeout(..) resolves
\* (the Ok(in_time) arm), handle has returned the task's own result: Ok(r) for
\* its Ok(r), its error e as the source of the Err; no follow-up task exists
\* and no update_response call has been made.
C1_ImmediateReturnsHandlerResult ==
    \A i \in Interactions :
        (branch[i] = "immediate" /\ Completed(i)) =>
            /\ callerPc[i] = "returned"
            /\ ret[i].value.tag = "Ok" => callerResult[i] = Ok(ret[i].value.value)
            /\ ret[i].value.tag = "Err" =>
                    /\ callerResult[i].tag = "Err"
                    /\ callerResult[i].error.source = ret[i].value.error
            /\ followUp[i] = "none"
            /\ updateCalls[i] = <<>>

C1_Witness ==
    \E i \in Interactions :
        /\ branch[i] = "immediate"
        /\ Completed(i)
        /\ callerResult[i].tag = "Ok"
        /\ callerResult[i].value \in HandlerResponses
        /\ timer[i] = "dropped"

\* C2: when timeout(..) resolves to Err(_) (the deadline fires first), handle
\* returns the deferred response, and once the handler task has sent its
\* result and the follow-up task has run, exactly one update_response call
\* has been made, and never more than one.
C2_DeferredThenOneUpdate ==
    \A i \in Interactions :
        branch[i] = "deferred" =>
            /\ callerPc[i] = "returned" => callerResult[i] = Ok(DeferredResponse)
            /\ Len(updateCalls[i]) <= 1
            /\ (Completed(i) /\ followUp[i] \in {"done", "panicked"}) =>
                    Len(updateCalls[i]) = 1

\* C3: a command interaction whose handle has ended took exactly one of the
\* two arms; the result is received at most once; on the immediate arm by the
\* caller and no follow-up task exists; on the deferred arm never by the
\* caller, and by the follow-up task once it has run after the send.
C3_OneBranchOneReceiver ==
    \A i \in Interactions :
        IsCommand(i) =>
            /\ Len(receivedBy[i]) <= 1
            /\ callerPc[i] \in {"returned", "panicked", "deferring"} =>
                    branch[i] \in {"immediate", "deferred"}
            /\ branch[i] = "immediate" =>
                    /\ followUp[i] = "none"
                    /\ Completed(i) => receivedBy[i] = <<"caller">>
            /\ branch[i] = "deferred" =>
                    /\ followUp[i] # "none"
                    /\ (Completed(i) /\ followUp[i] # "waiting") =>
                            receivedBy[i] = <<"followup">>
                    /\ ~Completed(i) => receivedBy[i] = <<>>

C3_Witness ==
    \E i, j \in Interactions :
        /\ receivedBy[i] = <<"caller">>
        /\ receivedBy[j] = <<"followup">>

\* C4: no step of the dispatcher after the spawn changes the state of the
\* handler task: the task is never aborted, and after the deadline it is
\* still what it was.
C4_HandlerNeverCancelled ==
    [][\A i \in Interactions :
            (callerPc[i] # "idle" /\ callerPc'[i] # callerPc[i]) =>
                /\ responseTask'[i] = responseTask[i]
                /\ responseTask'[i] # "aborted"]_vars

C4_Witness ==
    \E i \in Interactions :
        /\ branch[i] = "deferred"
        /\ callerPc[i] = "returned"
        /\ responseTask[i] = "invoked"

\* C5: the caller's way to its response never waits for the handler: with the
\* Sleep expired the poll of timeout(..) resolves whatever the handler task
\* does, and in the Err(_) arm the return of the deferred response is enabled
\* whatever the handler task does.
C5_ResponseByDeadline ==
    \A i \in Interactions :
        /\ (callerPc[i] = "racing" /\ timer[i] = "expired") => ENABLED PollTimeout(i)
        /\ callerPc[i] = "deferring" => ENABLED ReturnDeferred(i)

C5_Witness ==
    \E i \in Interactions :
        /\ callerPc[i] = "returned"
        /\ callerResult[i] = Ok(DeferredResponse)
        /\ responseTask[i] \in {"spawned", "invoked"}

\* C6: an update_response call for an interaction is made only after the
\* deferred response has been returned to the caller.
C6_UpdateAfterDeferredReturn ==
    \A i \in Interactions :
        updateCalls[i] # <<>> =>
            /\ callerPc[i] = "returned"
            /\ callerResult[i] = Ok(DeferredResponse)

\* C16: a Ping is answered at once with Pong, which carries no data; no name
\* is looked up, no handler task is spawned, no timer is started and no
\* follow-up task or update call is ever made for it.
C16_PingAnsweredAtOnce ==
    \A i \in Interactions :
        interaction[i].kind = "Ping" =>
            /\ callerPc[i] = "returned"
            /\ callerResult[i] = Ok(InteractionResponse("Pong", None))
            /\ branch[i] = "none"
            /\ responseTask[i] = "none"
            /\ chan[i].rx = "none"
            /\ timer[i] = "none"
            /\ followUp[i] = "none"
            /\ updateCalls[i] = <<>>
            /\ lookedUp[i] = 0
            /\ invoked[i] = <<>>

C16_Witness ==
    \E i, j \in Interactions :
        /\ interaction[i].kind = "Ping"
        /\ callerPc[i] = "returned"
        /\ callerResult[i] = Ok(Pong)
        /\ IsCommand(j)
        /\ followUp[j] = "done"

\* the handler of i was invoked and panicked before it produced a result
HandlerFailed(i) ==
    /\ invoked[i] # <<>>
    /\ responseTask[i] = "panicked"
    /\ ret[i] = None

\* C17: when the handler fails, on either side of the deadline, nothing of
\* the dispatcher panics: neither the future of handle nor the follow-up
\* task, and what handle returns on the immediate branch is an error.
C17_HandlerFailureAnswered ==
    \A i \in Interactions :
        HandlerFailed(i) =>
            /\ callerPc[i] # "panicked"
            /\ followUp[i] # "panicked"
            /\ (callerPc[i] = "returned" /\ branch[i] = "immediate") =>
                    callerResult[i].tag = "Err"

\* the step in which the follow-up task of i makes its update call and the
\* call fails
UpdateFails(i) ==
    /\ followUp[i] = "waiting"
    /\ updateCalls'[i] # updateCalls[i]
    /\ followUp'[i] = "panicked"

\* what belongs to the interactions other than i
OthersOf(i) ==
    [j \in Interactions \ {i} |->
        <<interaction[j], callerPc[j], callerResult[j], branch[j],
          responseTask[j], chan[j], timer[j], followUp[j], updateCalls[j],
          receivedBy[j], ret[j]>>]

CarriedBy(result) ==
    IF result.tag = "Err"
    THEN [content |-> Some(Report(result.error)), embeds |-> None]
    ELSE IF result.value.data = None
    THEN [content |-> None, embeds |-> None]
    ELSE [content |-> result.value.data.value.content,
          embeds |-> result.value.data.value.embeds]

\* C19: once the follow-up task has received the handler task's result, it
\* has made exactly one update call, which carries that result, whatever the
\* result is: a response with data, a response without data, or an error.
C19_UpdateCarriesResult ==
    \A i \in Interactions :
        (receivedBy[i] = <<"followup">> /\ followUp[i] # "waiting") =>
            updateCalls[i] = <<CarriedBy(ret[i].value)>>

\* C20: the handler is invoked at most once for an interaction, after at
\* most one lookup; the one result it produced is received by one observer
\* only, and what handle returned or the follow-up sent was made from it.
C20_InvokedAtMostOnce ==
    \A i \in Interactions :
        /\ Len(invoked[i]) <= 1
        /\ lookedUp[i] <= 1
        /\ Len(receivedBy[i]) <= 1
        /\ receivedBy[i] # <<>> => ret[i] # None
        /\ receivedBy[i] = <<"caller">> =>
                callerResult[i] = ImmediateResult(ret[i].value)
        /\ updateCalls[i] # <<>> =>
                updateCalls[i] = <<UpdateRequest(ret[i].value).value>>

C20_Witness ==
    \E i, j \in Interactions :
        /\ Len(invoked[i]) = 1
        /\ branch[i] = "deferred"
        /\ callerPc[i] = "returned"
        /\ followUp[i] = "done"
        /\ Len(updateCalls[i]) = 1
        /\ Len(invoked[j]) = 1
        /\ branch[j] = "immediate"
        /\ receivedBy[j] = <<"caller">>

\* the error CommandRouter::handle has for a command that lacks command data
MissingDataError(ix) ==
    IF ix.data = None THEN [tag |-> "MisssingInteractionData"]
    ELSE [tag |-> "MissingExpectedCommandData"]

LacksCommandData(ix) ==
    /\ ix.kind = "ApplicationCommand"
    /\ (ix.data = None \/ ix.data.tag # "ApplicationCommand")

\* C21: a command interaction without data, or with data of another variant,
\* is reported as MisssingInteractionData, respectively
\* MissingExpectedCommandData: by what handle returns on the immediate branch
\* and by the update call on the deferred one. It is never answered with Pong,
\* no name is looked up and no handler is invoked for it.
C21_MissingDataIsAnError ==
    \A i \in Interactions :
        LacksCommandData(interaction[i]) =>
            /\ invoked[i] = <<>>
            /\ lookedUp[i] = 0
            /\ callerResult[i] # Ok(Pong)
            /\ ret[i] # None =>
                    ret[i] = Some(Err(MissingDataError(interaction[i])))
            /\ (callerPc[i] = "returned" /\ branch[i] = "immediate") =>
                    callerResult[i] =
                        Err([tag |-> "CommandHandleError",
                             source |-> MissingDataError(interaction[i])])
            /\ updateCalls[i] # <<>> =>
                    updateCalls[i] =
                        <<[content |-> Some(Report(MissingDataError(interaction[i]))),
                           embeds |-> None]>>

C21_Witness ==
    \E i, j \in Interactions :
        /\ interaction[i].kind = "ApplicationCommand"
        /\ interaction[i].data = None
        /\ callerPc[i] = "returned"
        /\ branch[i] = "immediate"
        /\ callerResult[i].tag = "Err"
        /\ interaction[j].kind = "ApplicationCommand"
        /\ interaction[j].data = [tag |-> "MessageComponent"]
        /\ Len(updateCalls[j]) = 1

\* everything a dispatch of j owns: its interaction, the future of handle,
\* the channel, the handler task, the timer, the follow-up task and its calls
OwnedBy(j) ==
    <<interaction[j], callerPc[j], callerResult[j], branch[j], responseTask[j],
      chan[j], timer[j], followUp[j], updateCalls[j], receivedBy[j],
      lookedUp[j], invoked[j], ret[j]>>

\* C22: every step of any dispatch, handler task, timer or follow-up task
\* changes what one interaction owns and nothing of any other interaction,
\* whatever the other interactions are doing at that moment; and each channel
\* is received from by the observers of its own interaction only.
C22_DispatchesIndependent ==
    [][/\ \E i \in Interactions :
            \A j \in Interactions \ {i} : OwnedBy(j)' = OwnedBy(j)
       /\ \A i \in Interactions :
            /\ chan'[i].value # chan[i].value => responseTask'[i] # responseTask[i]
                                                \/ receivedBy'[i] # receivedBy[i]
            /\ receivedBy'[i] # receivedBy[i] => chan[i].value = ret[i]]_vars

C22_Witness ==
    \E i, j \in Interactions :
        /\ i # j
        /\ responseTask[i] = "invoked"
        /\ callerPc[i] = "racing"
        /\ branch[j] = "deferred"
        /\ followUp[j] = "waiting"
        /\ chan[j].value # None

\* C26: what handle returns as Ok is Pong exactly for a Ping, the deferred
\* acknowledgement (DeferredChannelMessageWithSource, ephemeral) exactly when
\* timeout(..) resolved to Err(Elapsed), and a ChannelMessageWithSource, the
\* handler's own response, exactly when the handler task ended in time.
C26_ThreeResponseKinds ==
    \A i \in Interactions :
        (callerPc[i] = "returned" /\ callerResult[i].tag = "Ok") =>
            LET response == callerResult[i].value IN
            /\ response.kind \in {"Pong", "DeferredChannelMessageWithSource",
                                  "ChannelMessageWithSource"}
            /\ response.kind = "Pong" <=> interaction[i].kind = "Ping"
            /\ response.kind = "DeferredChannelMessageWithSource" <=>
                    branch[i] = "deferred"
            /\ response.kind = "DeferredChannelMessageWithSource" =>
                    /\ response.data # None
                    /\ response.data.value.flags = "EPHEMERAL"
            /\ response.kind = "ChannelMessageWithSource" <=>
                    branch[i] = "immediate"
            /\ response.kind = "ChannelMessageWithSource" =>
                    ret[i] = Some(Ok(response))

C26_Witness ==
    \E i, j \in Interactions :
        /\ callerPc[i] = "returned"
        /\ callerResult[i].tag = "Ok"
        /\ callerResult[i].value.kind = "DeferredChannelMessageWithSource"
        /\ callerPc[j] = "returned"
        /\ callerResult[j].tag = "Ok"
        /\ callerResult[j].value.kind = "ChannelMessageWithSource"

\* the spawned tasks of i that have not ended: response_task while it has
\* not sent or panicked, the follow-up task while it awaits rx
PendingTasks(i) ==
    (IF responseTask[i] \in {"spawned", "invoked"} THEN {"response_task"} ELSE {})
        \cup (IF followUp[i] = "waiting" THEN {"follow_up"} ELSE {})

\* C27: while the handler has not completed after the deferred response was
\* returned, exactly one background task of the interaction is pending, and
\* no update call has been made.
C27_OnePendingTask ==
    \A i \in Interactions :
        (/\ callerPc[i] = "returned"
         /\ branch[i] = "deferred"
         /\ responseTask[i] = "invoked") =>
            /\ Cardinality(PendingTasks(i)) = 1
            /\ updateCalls[i] = <<>>

\* C31: whenever response_task has computed its result and sent it, the
\* receiver still existed: the send succeeded and the task did not panic,
\* also when the caller dropped the future of handle in the meantime.
C31_SendAlwaysSucceeds ==
    \A i \in Interactions :
        ret[i] # None => responseTask[i] # "panicked"

\* C32: InteractionHandler::handle returns a value without panicking for an
\* interaction of every kind: Ping, ApplicationCommand, MessageComponent,
\* ApplicationCommandAutocomplete, ModalSubmit and kinds it does not know.
C32_HandleNeverPanics ==
    \A i \in Interactions :
        interaction[i] # NoInteraction => callerPc[i] # "panicked"

\* C33: a handler is invoked only for an interaction whose data is present
\* and is application-command data, so that the unwrap of interaction.data
\* and the panic! of the let-else in handle_impl are never reached.
C33_HandlerInvokedWithCommandData ==
    \A i \in Interactions :
        invoked[i] # <<>> =>
            /\ interaction[i].data # None
            /\ interaction[i].data.tag = "ApplicationCommand"

\* a handler was invoked, while another interaction without data and one
\* with data of another variant were turned away
C33_Witness ==
    \E i \in Interactions :
        /\ invoked[i] # <<>>
        /\ interaction[i].data.tag = "ApplicationCommand"
        /\ \E j \in Interactions :
            /\ interaction[j].kind = "ApplicationCommand"
            /\ interaction[j].data.tag # "ApplicationCommand"
            /\ ret[j] # None
            /\ invoked[j] = <<>>

\* the handler task has sent its result and the 500 ms have passed, and
\* timeout(..) has not been polled since: both are ready at the next poll
BothReady(i) ==
    /\ callerPc[i] = "racing"
    /\ responseTask[i] = "finished"
    /\ timer[i] = "expired"

\* C34: when the handler task has already completed at the poll at which the
\* timer is found expired, the dispatcher takes the immediate branch: it
\* returns the handler's own result and spawns no follow-up task.
C34_CompletedTaskWinsTie ==
    [][\A i \in Interactions :
        (BothReady(i) /\ callerPc'[i] \notin {"racing", "dropped"}) =>
            /\ branch'[i] = "immediate"
            /\ callerPc'[i] = "returned"
            /\ callerResult'[i] = ImmediateResult(ret[i].value)
            /\ followUp'[i] = "none"
            /\ updateCalls'[i] = <<>>]_vars

\* the tie itself: the result is in the channel, the timer has expired and
\* the caller is about to be polled
C34_Witness ==
    \E i \in Interactions :
        /\ BothReady(i)
        /\ chan[i].value = ret[i]
        /\ ret[i] # None
        /\ branch[i] = "none"

(***************************************************************************)
(* Properties of the router.                                               *)
(***************************************************************************)
\* no two entries carry the same name
DistinctNames(entries) ==
    \A j, k \in 1..Len(entries) : j # k => entries[j].name # entries[k].name

Registered(entries, name) == \E k \in 1..Len(entries) : entries[k].name = name

\* the handler registered under a name (of entries with distinct names)
HandlerOf(entries, name) ==
    entries[CHOOSE k \in 1..Len(entries) : entries[k].name = name].handler

\* the interaction carries command data, and the router has looked its name up
LookedUpName(i) ==
    /\ IsCommand(i)
    /\ interaction[i].data # None
    /\ interaction[i].data.tag = "ApplicationCommand"
    /\ lookedUp[i] > 0

\* C13: in a router built from entries with distinct names (and looked up in
\* as it was built), the lookup of a
\* registered name invokes exactly the handler registered under it, and the
\* lookup of any other name (a prefix, an extension, a case variant of a
\* registered one) invokes nothing and yields CommandDoesntExist of that name.
C13_ExactLookup ==
    (/\ all_commands # None
     /\ DistinctNames(all_commands.value)
     /\ LookedUpName(HttpInteraction)
     /\ router_view[HttpInteraction] = Some(from_iter(all_commands.value))) =>
        LET name == interaction[HttpInteraction].data.name IN
        IF Registered(all_commands.value, name)
        THEN invoked[HttpInteraction] = <<HandlerOf(all_commands.value, name)>>
        ELSE /\ invoked[HttpInteraction] = <<>>
             /\ ret[HttpInteraction] =
                    Some(Err([tag |-> "CommandDoesntExist", name |-> name]))

C13_Witness ==
    /\ all_commands # None
    /\ Len(all_commands.value) = 2
    /\ DistinctNames(all_commands.value)
    /\ Registered(all_commands.value, NewRelease)
    /\ Registered(all_commands.value, NewReleasePrefix)
    /\ LookedUpName(HttpInteraction)
    /\ interaction[HttpInteraction].data.name = NewReleaseExtension
    /\ invoked[HttpInteraction] = <<>>
    /\ ret[HttpInteraction] # None

\* C14: a router is never built from entries that contain the same name
\* twice: no handler is kept under a duplicated name.
C14_DuplicateNameFailsBuild ==
    (all_commands # None /\ ~DistinctNames(all_commands.value)) =>
        \A k \in 1..Len(all_commands.value) :
            all_commands.value[k].name \notin DOMAIN command_router

\* the request deserialized to a command whose name the router does not have
UnregisteredCommandRequest ==
    /\ deserialized # None
    /\ deserialized.value.tag = "Ok"
    /\ deserialized.value.value.kind = "ApplicationCommand"
    /\ deserialized.value.value.data # None
    /\ deserialized.value.value.data.tag = "ApplicationCommand"
    /\ deserialized.value.value.data.name \notin DOMAIN command_router

\* C15: a command whose name is not registered is answered to the HTTP caller
\* with the CommandDoesntExist error carrying that name; no handler is
\* invoked and nothing panics from handle through handle_post.
C15_UnregisteredAnswered ==
    (UnregisteredCommandRequest /\ httpPc \notin {"extracted", "handling", "dropped"}) =>
        /\ invoked[HttpInteraction] = <<>>
        /\ callerPc[HttpInteraction] # "panicked"
        /\ httpPc = "responded"
        /\ \/ httpResponse.value.body = DeferredResponse
           \/ /\ httpResponse.value.body.tag = "Err"
              /\ httpResponse.value.body.error.tag = "CommandDoesntExist"
              /\ httpResponse.value.body.error.name =
                    deserialized.value.value.data.name

\* what the lookup of i has come to: the handler invoked, or the error sent
LookupOutcome(i) ==
    IF invoked[i] # <<>> THEN Ok(invoked[i][1])
    ELSE IF ret[i] # None /\ ret[i].value.tag = "Err" THEN ret[i].value
    ELSE None

\* C23: an insertion into the router after a task took its clone neither
\* changes the clone nor keeps the task from looking up: the lookup through
\* the clone gives what the router gave when the clone was taken.
C23_ViewUnchangedByInsertion ==
    [][/\ router_view[HttpInteraction] # None =>
            router_view'[HttpInteraction] = router_view[HttpInteraction]
       /\ (router_view[HttpInteraction] # None
           /\ responseTask[HttpInteraction] = "spawned") =>
            ENABLED CommandRouter_handle(HttpInteraction)
       /\ lookedUp'[HttpInteraction] # lookedUp[HttpInteraction] =>
            LookupOutcome(HttpInteraction)' =
                Route(router_view[HttpInteraction].value,
                      interaction[HttpInteraction])]_vars

C23_Witness ==
    /\ router_view[HttpInteraction] # None
    /\ NewRelease \notin DOMAIN router_view[HttpInteraction].value
    /\ NewRelease \in DOMAIN command_router
    /\ LookedUpName(HttpInteraction)
    /\ interaction[HttpInteraction].data.name = NewRelease
    /\ LookupOutcome(HttpInteraction) =
            Err([tag |-> "CommandDoesntExist", name |-> NewRelease])

\* C24: the router is what the one build made it, before and after every
\* call of handle and every step of its tasks, and every clone a task holds
\* equals it.
C24_RouterNeverChanges ==
    /\ command_router = from_iter(all_commands.value)
    /\ \A i \in Interactions :
            router_view[i] # None => router_view[i].value = command_router

C24_Witness ==
    \E i, j \in Interactions :
        /\ branch[i] = "immediate"
        /\ callerPc[i] = "returned"
        /\ callerResult[i].tag = "Err"
        /\ branch[j] = "deferred"
        /\ callerPc[j] = "returned"
        /\ followUp[j] = "panicked"
        /\ command_router = from_iter(all)

(***************************************************************************)
(* Properties of the new-release handler.                                  *)
(***************************************************************************)
\* the failures of handle_impl that an interaction allows
FailuresOf(ix) ==
    IF ix.guild_id = None THEN {[tag |-> "NotUsedInGuild"]}
    ELSE IF ix.data.url = None THEN {[tag |-> "UrlMissing"]}
    ELSE IF ix.data.url.value.type # "String"
        THEN {[tag |-> "UrlNotString", actual |-> ix.data.url.value.type]}
    ELSE IF ~ix.data.url.value.parses THEN {[tag |-> "UrlParseError"]}
    ELSE {[tag |-> "RolesMapError", source |-> [tag |-> e]] :
                e \in {"FetchRolesError", "DeserializeRolesError"}}
         \cup {[tag |-> "ReleaseError", source |-> [tag |-> e]] :
                e \in {"SpotifyError", "SemanticDataError"}}

\* the url option is a string that parses and the command is used in a guild
FetchesReached(ix) ==
    /\ ix.guild_id # None
    /\ ix.data.url # None
    /\ ix.data.url.value.type = "String"
    /\ ix.data.url.value.parses

\* a ChannelMessageWithSource, ephemeral, whose one embed renders the failure
IsErrorResponseOf(response, failure) ==
    /\ response.kind = "ChannelMessageWithSource"
    /\ response.data # None
    /\ response.data.value.flags = "EPHEMERAL"
    /\ response.data.value.embeds =
            Some(<<[title |-> "Error", description |-> Report(failure)]>>)

\* C28: what the new-release handler hands the dispatcher is always a
\* response, never an error: for each failure inside it (not in a guild, url
\* missing, not a string, unparsable, roles fetch, release fetch) the
\* ephemeral ChannelMessageWithSource with the error embed of that failure,
\* and the success response only when nothing failed.
C28_HandlerTotal ==
    \A i \in Interactions :
        (invoked[i] # <<>> /\ ret[i] # None) =>
            /\ ret[i].value.tag = "Ok"
            /\ \/ /\ FetchesReached(interaction[i])
                  /\ ret[i].value.value = SuccessResponse(<<"roles_map", "release">>)
               \/ \E failure \in FailuresOf(interaction[i]) :
                    IsErrorResponseOf(ret[i].value.value, failure)

C28_Witness ==
    /\ invoked[HttpInteraction] # <<>>
    /\ ret[HttpInteraction] # None
    /\ FetchesReached(interaction[HttpInteraction])
    /\ IsErrorResponseOf(ret[HttpInteraction].value.value,
            [tag |-> "ReleaseError", source |-> [tag |-> "SpotifyError"]])
    /\ callerPc[HttpInteraction] = "returned"
    /\ callerResult[HttpInteraction] = Ok(ret[HttpInteraction].value.value)

(***************************************************************************)
(* Properties of CaseInsensitiveString.                                    *)
(***************************************************************************)
\* str::to_ascii_lowercase
str_to_ascii_lowercase(string) ==
    [k \in 1..Len(string) |-> to_ascii_lowercase(string[k])]

\* Ord for str: the lexicographic order of the bytes
RECURSIVE str_cmp(_, _)
str_cmp(a, b) ==
    IF a = <<>> /\ b = <<>> THEN "Equal"
    ELSE IF a = <<>> THEN "Less"
    ELSE IF b = <<>> THEN "Greater"
    ELSE IF Head(a) < Head(b) THEN "Less"
    ELSE IF Head(a) > Head(b) THEN "Greater"
    ELSE str_cmp(Tail(a), Tail(b))

\* C29: CaseInsensitiveString(a).cmp(CaseInsensitiveString(b)) is
\* a.to_ascii_lowercase().cmp(b.to_ascii_lowercase()); in particular, when a
\* lowercased is a proper prefix of b lowercased, it is Less.
C29_CmpIsLowercasedCmp ==
    ordering # None =>
        LET a == str_to_ascii_lowercase(strings[1])
            b == str_to_ascii_lowercase(strings[2])
        IN /\ ordering.value = str_cmp(a, b)
           /\ (IsPrefix(a, b) /\ Len(a) < Len(b)) => ordering.value = "Less"
           /\ (IsPrefix(b, a) /\ Len(b) < Len(a)) => ordering.value = "Greater"

C29_Witness ==
    /\ ordering = Some("Less")
    /\ Len(strings[1]) < Len(strings[2])
    /\ strings[1] # <<>>
    /\ strings[1] # SubSeq(strings[2], 1, Len(strings[1]))
    /\ IsPrefix(str_to_ascii_lowercase(strings[1]),
                str_to_ascii_lowercase(strings[2]))

\* two bytes are the same, or the upper- and lower-case form of one letter
SameIgnoringCase(x, y) ==
    \/ x = y
    \/ 65 <= x /\ x <= 90 /\ y = x + 32
    \/ 65 <= y /\ y <= 90 /\ x = y + 32

DifferAtMostInCase(a, b) ==
    /\ Len(a) = Len(b)
    /\ \A k \in 1..Len(a) : SameIgnoringCase(a[k], b[k])

\* what a map built from (a, "first"), (b, "second") holds for a key
StoredUnder(key) ==
    IF DifferAtMostInCase(key, strings[2]) THEN Some("second")
    ELSE IF DifferAtMostInCase(key, strings[1]) THEN Some("first")
    ELSE None

\* C30: two CaseInsensitiveString values are equal exactly when they differ
\* at most in ASCII letter case, eq holds exactly when cmp is Equal, and a
\* BTreeMap keyed by them returns, for every case variant of a stored key,
\* the value stored under that key (and nothing for any other string).
C30_EqualIffCaseVariant ==
    /\ equal # None =>
            /\ equal.value <=> DifferAtMostInCase(strings[1], strings[2])
            /\ equal.value <=>
                    CaseInsensitiveString_cmp(strings[1], strings[2]) = "Equal"
            /\ ordering # None => (equal.value <=> ordering.value = "Equal")
    /\ btreemap # None =>
            \A key \in CaseStrings :
                BTreeMap_get(btreemap.value, key) = StoredUnder(key)

C30_Witness ==
    /\ equal = Some(TRUE)
    /\ strings[1] # strings[2]
    /\ Len(strings[1]) = MaxStringLen
    /\ btreemap # None
    /\ Len(btreemap.value) = 1
    /\ BTreeMap_get(btreemap.value, strings[1]) = Some("second")

(***************************************************************************)
(* Properties of init.                                                     *)
(***************************************************************************)
\* the InteractionHandler exists: its router has been built
HandlerProduced == all_commands # None

\* a request of init, or the reading of its answer, has failed
InitFailed == \E k \in DOMAIN replies : replies[k] = "Err"

\* the names among the elements of a sequence
NamesIn(commands) == {commands[k] : k \in DOMAIN commands}

\* C35: init is ordered and all-or-nothing.  The router is built only after
\* set_global_commands has registered the catalog with the platform; when the
\* fetch of the application or the registration fails, init returns an
\* InitError and no InteractionHandler is produced; when init succeeds, the
\* names in the router are the names that were sent to the platform.
C35_InitOrderedAllOrNothing ==
    /\ HandlerProduced =>
        /\ discord_commands = Some(CommandsOf(catalog))
        /\ platform = discord_commands
        /\ ~InitFailed
    /\ InitFailed =>
        /\ initPc = "returned"
        /\ initResult.tag = "Err"
        /\ ~HandlerProduced
        /\ command_router = <<>>
    /\ initResult.tag = "Ok" =>
        /\ HandlerProduced
        /\ initResult.value.interaction_handler.command_router = command_router
        /\ DOMAIN command_router = NamesIn(discord_commands.value)
        /\ NamesIn(platform.value) = DOMAIN command_router

\* init has succeeded for a catalog of two commands with different names
C35_Witness ==
    /\ initPc = "returned"
    /\ initResult.tag = "Ok"
    /\ Len(catalog) >= 2
    /\ catalog[1].name # catalog[2].name
    /\ Len(replies) = 4

(***************************************************************************)
(* Properties of parse_list_of_artists.                                    *)
(***************************************************************************)
\* the names of a NonEmptyVec, head first
Names(vec) == <<vec.head>> \o vec.tail

\* the strings put together again with the separator between them
RECURSIVE Join(_, _)
Join(items, separator) ==
    IF Len(items) = 1 THEN items[1]
    ELSE items[1] \o separator \o Join(Tail(items), separator)

\* the comma-separated segments of the input, left to right
Segments == split(artists_joined, CommaSpace)

\* C36: parse_list_of_artists never panics and never returns an empty list.
\* Its result is, left to right, the segments of the input between the
\* ", " separators, with the last segment, and only that one, split further
\* at " & ": all segments but the last are names as they are, and the names
\* after them joined with " & " give back the last segment.
C36_ParseListOfArtists ==
    artists # None =>
        /\ artists.value.tag = "Ok"
        /\ LET names == Names(artists.value.value)
               before == Len(Segments) - 1
           IN  /\ names # <<>>
               /\ Len(names) > before
               /\ SubSeq(names, 1, before) = SubSeq(Segments, 1, before)
               /\ Join(SubSeq(names, before + 1, Len(names)), SpaceAmpersandSpace)
                    = Segments[Len(Segments)]
               /\ \A k \in (before + 1)..Len(names) :
                    Matches(names[k], SpaceAmpersandSpace) = {}

\* a list of three names, separated once by ", " and once by " & ", has
\* been parsed into the three names
C36_Witness ==
    /\ artists # None
    /\ artists_joined = <<"a">> \o CommaSpace \o <<"a">>
                            \o SpaceAmpersandSpace \o <<"a">>
    /\ Names(artists.value.value) = << <<"a">>, <<"a">>, <<"a">> >>

(***************************************************************************)
(* Properties of get_release_from_ld_json.                                 *)
(***************************************************************************)
\* the release type the page declares
Declared == music_album.value.album_release_type.value

\* the number of tracks the page lists
TrackCount == music_album.value.track.value

\* get_release_from_ld_json has returned a Release
ReleaseReturned ==
    /\ ld_json_release # None
    /\ ld_json_release.value.tag = "Ok"

\* C37: a release the page declares as AlbumRelease is classified by its
\* number of tracks: fewer than 3 is a Single, 3 to 6 an EP, 7 or more an LP.
\* A release declared as EPRelease, SingleRelease or BroadcastRelease keeps
\* its declared type, whatever the number of tracks.
C37_ClassifiedByTrackCount ==
    ReleaseReturned =>
        LET kind == ld_json_release.value.value.kind IN
        /\ (Declared = "AlbumRelease" /\ TrackCount < 3) => kind = [tag |-> "Single"]
        /\ (Declared = "AlbumRelease" /\ TrackCount \in 3..6) => kind = [tag |-> "EP"]
        /\ (Declared = "AlbumRelease" /\ TrackCount >= 7) => kind = [tag |-> "LP"]
        /\ Declared = "EPRelease" => kind = [tag |-> "EP"]
        /\ Declared = "SingleRelease" => kind = [tag |-> "Single"]
        /\ Declared = "BroadcastRelease" => kind.tag = "Other"

\* a release declared as AlbumRelease with three tracks was returned as an EP
C37_Witness ==
    /\ ReleaseReturned
    /\ Declared = "AlbumRelease"
    /\ TrackCount = 3
    /\ ld_json_release.value.value.kind = EP

(***************************************************************************)
(* Properties of the HTTP boundary.                                        *)
(***************************************************************************)
\* the request carries, in well-formed hex, the signature the platform's key
\* makes over timestamp || body
GenuinelySigned(req) ==
    /\ req.timestamp # None
    /\ req.signature =
            Some(HexText(Sign("discord", req.timestamp.value \o req.body)))

\* the extractors have started on the request
Extracting == httpPc \notin {"listening", "received"}

\* C7: a request whose signature does not verify against timestamp || body
\* with the configured public key is rejected: its body is never
\* deserialized, handle is never called for it, no lookup is made and no
\* handler is invoked.
C7_UnverifiedNeverParsed ==
    (Extracting /\ ~GenuinelySigned(request.value)) =>
        /\ httpPc = "responded"
        /\ httpResponse.value.status # OK
        /\ deserialized = None
        /\ callerPc[HttpInteraction] = "idle"
        /\ lookedUp[HttpInteraction] = 0
        /\ invoked[HttpInteraction] = <<>>

C7_Witness ==
    /\ httpPc = "responded"
    /\ verification # None
    /\ verification.value.tag = "Err"
    /\ from_slice(request.value.body).tag = "Ok"
    /\ deserialized = None

\* C8: for the request, verify has returned Ok before the body is
\* deserialized, the body has deserialized to an Interaction before the
\* router looks a name up, and the lookup is made before the handler is
\* invoked.
C8_VerifyParseLookupInvoke ==
    /\ deserialized # None => (verification # None /\ verification.value.tag = "Ok")
    /\ callerPc[HttpInteraction] # "idle" =>
            (deserialized # None /\ deserialized.value.tag = "Ok")
    /\ lookedUp[HttpInteraction] > 0 => callerPc[HttpInteraction] # "idle"
    /\ invoked[HttpInteraction] # <<>> => lookedUp[HttpInteraction] > 0

C8_Witness ==
    /\ httpPc = "handling"
    /\ invoked[HttpInteraction] # <<>>
    /\ lookedUp[HttpInteraction] > 0

\* the three authentication failures: the signature header is absent, it is
\* not well-formed (not hex, or not of the signature's length), or it does not
\* match the message
SignatureAbsent(req) == req.signature = None
SignatureMalformed(req) ==
    /\ req.signature # None
    /\ \/ ~req.signature.value.hex
       \/ req.signature.value.bytes.length # SignatureLength
SignatureMismatched(req) ==
    /\ req.signature # None
    /\ req.signature.value.hex
    /\ req.signature.value.bytes.length = SignatureLength
    /\ req.timestamp # None
    /\ ~GenuinelySigned(req)

\* C9: each of the three authentication failures is answered with one and the
\* same response, of an unauthenticated (401 or 403) status.
C9_UniformUnauthenticated ==
    (/\ httpPc = "responded"
     /\ \/ SignatureAbsent(request.value)
        \/ SignatureMalformed(request.value)
        \/ SignatureMismatched(request.value)) =>
        /\ httpResponse.value.status \in {401, FORBIDDEN}
        /\ httpResponse.value = VerificationError_into_response

\* C10: for every timestamp and body, the signature the genuine key makes
\* over timestamp || body is accepted by verify under the genuine public key.
C10_GenuineSignatureVerifies ==
    (Extracting /\ GenuinelySigned(request.value)) =>
        verification = Some(Ok(None))

C10_Witness ==
    /\ Extracting
    /\ GenuinelySigned(request.value)
    /\ verification = Some(Ok(None))
    /\ request.value.timestamp.value # <<>>
    /\ request.value.body # <<>>
    /\ request.value.body # request.value.timestamp.value

\* the well-formed signature header of the request, made by the platform's key
SignedByDiscord(req) ==
    /\ req.signature # None
    /\ req.signature.value.hex
    /\ req.signature.value.bytes.length = SignatureLength
    /\ req.signature.value.bytes.key = "discord"
    /\ req.timestamp # None

\* the platform's key made the request's signature over a pair
\* (timestamp', body') other than the pair the request carries
SignedOverOtherPair(req) ==
    /\ SignedByDiscord(req)
    /\ \E t \in Timestamps, b \in Bodies :
        /\ req.signature.value.bytes.message = t \o b
        /\ (b # req.body \/ t # req.timestamp.value)

\* C11: a signature the genuine key made over a pair (body', timestamp')
\* different from the request's (body, timestamp) makes verify fail.
C11_OtherPairRejected ==
    (verification # None /\ SignedOverOtherPair(request.value)) =>
        verification.value.tag = "Err"

\* the positions at which two byte strings of one length differ
DifferingPositions(a, b) == {k \in 1..Len(a) : a[k] # b[k]}

\* the platform's key signed timestamp || body, and then one byte of the
\* timestamp or of the body was replaced by a different value
OneByteReplacedAfterSigning(req) ==
    /\ SignedByDiscord(req)
    /\ LET signed == req.signature.value.bytes.message
           carried == req.timestamp.value \o req.body
       IN /\ Len(signed) = Len(carried)
          /\ Cardinality(DifferingPositions(signed, carried)) = 1

\* C12: when one byte of the body or of the timestamp is replaced by a
\* different value after signing, verify fails and the request is rejected
\* without being deserialized.
C12_OneByteChangeRejected ==
    (Extracting /\ OneByteReplacedAfterSigning(request.value)) =>
        /\ verification # None
        /\ verification.value.tag = "Err"
        /\ httpPc = "responded"
        /\ httpResponse.value = VerificationError_into_response
        /\ deserialized = None

C12_Witness ==
    /\ Extracting
    /\ OneByteReplacedAfterSigning(request.value)
    /\ Len(request.value.body) = MaxBodyLen
    /\ verification # None
    /\ verification.value.tag = "Err"
    /\ httpPc = "responded"

\* C25: a request whose signature verifies and whose body does not
\* deserialize to an Interaction is answered with 400, and handle is never
\* called for it: nothing is dispatched, looked up or invoked.
C25_UnparsableBodyRejected ==
    (/\ verification = Some(Ok(None))
     /\ deserialized # None
     /\ deserialized.value.tag = "Err") =>
        /\ httpPc = "responded"
        /\ httpResponse.value.status = BAD_REQUEST
        /\ callerPc[HttpInteraction] = "idle"
        /\ interaction[HttpInteraction] = NoInteraction
        /\ router_view[HttpInteraction] = None
        /\ responseTask[HttpInteraction] = "none"
        /\ lookedUp[HttpInteraction] = 0
        /\ invoked[HttpInteraction] = <<>>

C25_Witness ==
    /\ Extracting
    /\ GenuinelySigned(request.value)
    /\ verification = Some(Ok(None))
    /\ deserialized # None
    /\ deserialized.value.tag = "Err"
    /\ httpPc = "responded"
    /\ httpResponse.value.status = BAD_REQUEST

====
